---- MODULE Spec2Model ----
(***************************************************************************)
(* A model of server.py, the Radio France MCP server: the GraphQL-backed   *)
(* tools (get_taxonomies, get_diffusions, get_brand, get_station_grid),    *)
(* the scraping tools, and the tools composed of them (search_podcasts,    *)
(* get_station_programs, search_episodes, natural_language_search).        *)
(*                                                                         *)
(* One tool invocation runs at a time.  The remote (the GraphQL gateway    *)
(* and the web site) is the environment: every await of a remote call is   *)
(* a step whose response is chosen from a bounded set of responses.  The   *)
(* code between two awaits runs inside one step.                           *)
(*                                                                         *)
(* JSON values.  A string is a TLA+ string.  JSON null in a string-valued  *)
(* position is NULL, a key that is missing from an object is ABSENT.  A    *)
(* position that holds an object, a list or null is a record tagged by k   *)
(* ("obj", "list", "null", "absent").  A tool's return value is the value  *)
(* json.loads gives for the text the tool returns, tagged by t.            *)
(***************************************************************************)
EXTENDS Integers, Sequences, FiniteSets, TLC

VARIABLES
    API_KEY,        \* server.py:27, TRUE iff the credential is set
    tool,           \* the tool invoked ("none" before the invocation)
    pc,             \* "idle", the await the invocation is suspended at, or "done"
    loc,            \* the locals of the coroutines on the call stack
    result,         \* the value the invoked tool returned
    gateway_calls,  \* the gql_client.execute_async calls made, in order
    http_calls,     \* the httpx client.get calls made, in order
    reply,          \* the response of the remote the last step received
    stages,         \* natural_language_search: the stages run and what each returned
    suspended       \* the invocation the event loop is not running, if there are two

vars ==
    <<API_KEY, tool, pc, loc, result, gateway_calls, http_calls, reply, stages, suspended>>

--------------------------------------------------------------------------
(* Bounds of the model.                                                    *)

\* the longest list of regular taxonomies the remote answers with
MaxTax == 2
\* the longest list of regular diffusions the remote answers with
MaxDiff == 2
\* the largest limit / max_results a tool is invoked with
MaxLimit == 3
\* the longest list of regular grid steps the remote answers with
MaxSteps == 3

--------------------------------------------------------------------------
(* Numbers of the program.                                                 *)

\* the number of taxonomies search_podcasts asks get_taxonomies for
TaxonomyLimit == 5
\* the default of the limit arguments
DefaultLimit == 10

--------------------------------------------------------------------------
(* Strings.                                                                *)

NULL == "<null>"
ABSENT == "<absent>"

UpperAlphabet == "ABCDEFGHIJKLMNOPQRSTUVWXYZ"
LowerAlphabet == "abcdefghijklmnopqrstuvwxyz"

\* the lower-case letter of every upper-case letter
LowerTable ==
    [c \in { SubSeq(UpperAlphabet, i, i) : i \in 1..Len(UpperAlphabet) } |->
        LET i == CHOOSE j \in 1..Len(UpperAlphabet) : SubSeq(UpperAlphabet, j, j) = c
        IN  SubSeq(LowerAlphabet, i, i)]

\* str.lower() of a one-character string
LowerChar(c) == IF c \in DOMAIN LowerTable THEN LowerTable[c] ELSE c

RECURSIVE StrLower(_)
\* str.lower()
StrLower(s) ==
    IF Len(s) = 0 THEN ""
    ELSE LowerChar(SubSeq(s, 1, 1)) \o StrLower(SubSeq(s, 2, Len(s)))

RECURSIVE RemoveSpaces(_)
\* str.replace(" ", "")
RemoveSpaces(s) ==
    IF Len(s) = 0 THEN ""
    ELSE (IF SubSeq(s, 1, 1) = " " THEN "" ELSE SubSeq(s, 1, 1))
         \o RemoveSpaces(SubSeq(s, 2, Len(s)))

\* needle in haystack
StrContains(haystack, needle) ==
    \E i \in 0..(Len(haystack) - Len(needle)) :
        SubSeq(haystack, i + 1, i + Len(needle)) = needle

\* s.startswith(prefix)
StartsWith(s, prefix) ==
    /\ Len(s) >= Len(prefix)
    /\ SubSeq(s, 1, Len(prefix)) = prefix

\* s.strip(): the model's texts carry blanks only as leading or trailing spaces
RECURSIVE Strip(_)
Strip(s) ==
    IF Len(s) = 0 THEN ""
    ELSE IF SubSeq(s, 1, 1) = " " THEN Strip(SubSeq(s, 2, Len(s)))
    ELSE IF SubSeq(s, Len(s), Len(s)) = " " THEN Strip(SubSeq(s, 1, Len(s) - 1))
    ELSE s

\* dict.get(key, default) of a string-valued key: the default only for a missing key
Get(v, default) == IF v = ABSENT THEN default ELSE v

\* truth value of a string-or-None
Truthy(v) == v # NULL /\ v # ABSENT /\ v # ""

\* seq[:n], n >= 0 or n < 0
Take(seq, n) ==
    IF n >= 0 THEN SubSeq(seq, 1, IF n < Len(seq) THEN n ELSE Len(seq))
    ELSE SubSeq(seq, 1, Len(seq) + n)

--------------------------------------------------------------------------
(* What the tools return.                                                  *)

ERR_API_KEY == "API key not set. Please configure RADIOFRANCE_API_KEY in your .env file."

\* json.dumps({"error": msg})
Err(msg) == [t |-> "error", error |-> msg]

\* isinstance(data, dict) and "error" in data
IsError(data) == data.t = "error"

NoResult == [t |-> "none"]

\* an exception raised inside a tool's try block
Raise(exc) == [t |-> "raise", exc |-> exc]

\* try: ... except Exception as e: return json.dumps({"error": f"{prefix}{str(e)}"})
TryExcept(prefix, outcome) ==
    IF outcome.t = "raise" THEN Err(prefix \o outcome.exc) ELSE outcome

--------------------------------------------------------------------------
(* The responses of the GraphQL gateway, gql_client.execute_async.  It     *)
(* raises (a transport failure, or an error payload of the remote) or it   *)
(* returns the data of the response, in which any requested key may be     *)
(* missing or null.                                                        *)

Raises == { [kind |-> "raise", exc |-> "TransportServerError"],
            [kind |-> "raise", exc |-> "TransportQueryError"] }

Absent == [k |-> "absent"]
Null == [k |-> "null"]
List(items) == [k |-> "list", items |-> items]

\* texts the remote tells items apart by, one per position
Ids == <<"1", "2", "3", "4", "5", "6", "7", "8", "9">>

(* ---- taxonomies(limit, keyword) ---- *)

Taxonomy(id, title, type) == [k |-> "obj", id |-> id, title |-> title, type |-> type]

\* the i-th regular taxonomy of a response
RegTaxonomy(i) == Taxonomy("t" \o Ids[i], "Theme " \o Ids[i], "theme")

IrregularTaxonomyLists ==
    { <<Taxonomy("", "No id", "theme")>>,
      <<Taxonomy(NULL, NULL, NULL), RegTaxonomy(2)>>,
      <<Taxonomy(ABSENT, ABSENT, ABSENT), RegTaxonomy(1)>>,
      <<RegTaxonomy(1), Taxonomy("t9", ABSENT, ABSENT)>>,
      <<Null>>,
      <<RegTaxonomy(1), Null>> }

TaxonomyLists ==
    { [i \in 1..n |-> RegTaxonomy(i)] : n \in 0..MaxTax } \cup IrregularTaxonomyLists

TaxonomiesResponses ==
    Raises
    \cup { [kind |-> "data", taxonomies |-> Absent],
           [kind |-> "data", taxonomies |-> Null] }
    \cup { [kind |-> "data", taxonomies |-> List(l)] : l \in TaxonomyLists }

(* ---- taxonomy(id) { id title diffusions(limit) {...} } ---- *)

Station(name) == [k |-> "obj", name |-> name]
Brand(title, station) == [k |-> "obj", title |-> title, station |-> station]
PodcastEpisode(url) == [k |-> "obj", url |-> url]

Diffusion(id, title, url, standFirst, diffusionDate, podcastEpisode, brand) ==
    [k |-> "obj", id |-> id, title |-> title, url |-> url, standFirst |-> standFirst,
     diffusionDate |-> diffusionDate, podcastEpisode |-> podcastEpisode, brand |-> brand]

\* the i-th regular diffusion of a response, of the brand titled b
RegDiffusion(i, b) ==
    Diffusion("d" \o Ids[i], "Episode " \o Ids[i], "/e/" \o Ids[i], "About " \o Ids[i],
              "2024-01-0" \o Ids[i], PodcastEpisode("https://media/" \o Ids[i] \o ".mp3"),
              Brand(b, Station("France Culture")))

BrandTitles == {"A", "B"}

RegDiffusionLists ==
    UNION { { [i \in 1..n |-> RegDiffusion(i, bs[i])] : bs \in [1..n -> BrandTitles] }
            : n \in 0..MaxDiff }

\* a regular diffusion with one part of it missing or null
PartialDiffusions ==
    LET d == RegDiffusion(1, "A") IN
      { [d EXCEPT ![f] = v] : f \in {"id", "title", "url", "standFirst", "diffusionDate"},
                              v \in {NULL, ABSENT} }
      \cup { [d EXCEPT !.podcastEpisode = v] :
                 v \in {Absent, Null, PodcastEpisode(NULL), PodcastEpisode(ABSENT)} }
      \cup { [d EXCEPT !.brand = v] :
                 v \in {Absent, Null, Brand(NULL, Station("France Culture")),
                        Brand(ABSENT, Station("France Culture")),
                        Brand("A", Absent), Brand("A", Null),
                        Brand("A", Station(NULL)), Brand("A", Station(ABSENT))} }
      \cup { Diffusion(ABSENT, ABSENT, ABSENT, ABSENT, ABSENT, Absent, Absent) }

IrregularDiffusionLists ==
    { <<d>> : d \in PartialDiffusions }
    \cup { <<Null>>, <<RegDiffusion(1, "B"), Null>> }

DiffusionLists == RegDiffusionLists \cup IrregularDiffusionLists

\* lists that show the order of the sort: upper case sorts before lower case, and
\* the empty title before both
MixedCaseDiffusionLists ==
    { <<RegDiffusion(1, "a"), RegDiffusion(2, "B")>>,
      <<RegDiffusion(1, "Ab"), RegDiffusion(2, "")>> }

TaxonomyNode(id, title, diffusions) ==
    [k |-> "obj", id |-> id, title |-> title, diffusions |-> diffusions]

DiffusionsResponses ==
    Raises
    \cup { [kind |-> "data", taxonomy |-> Absent],
           [kind |-> "data", taxonomy |-> Null],
           [kind |-> "data", taxonomy |-> TaxonomyNode("t1", "Theme 1", Absent)],
           [kind |-> "data", taxonomy |-> TaxonomyNode("t1", "Theme 1", Null)],
           [kind |-> "data", taxonomy |-> TaxonomyNode(NULL, ABSENT, List(<<>>))] }
    \cup { [kind |-> "data", taxonomy |-> TaxonomyNode("t1", "Theme 1", List(l))] :
               l \in DiffusionLists }

\* the responses the fetches of search_podcasts are answered with: the regular
\* lists, and one response of every other kind
SearchDiffusionsResponses ==
    { [kind |-> "raise", exc |-> "TransportServerError"],
      [kind |-> "data", taxonomy |-> Absent] }
    \cup { [kind |-> "data", taxonomy |-> TaxonomyNode("t1", "Theme 1", List(l))] :
               l \in RegDiffusionLists \cup MixedCaseDiffusionLists
                     \cup { <<[RegDiffusion(1, "A") EXCEPT
                                  !.brand = Brand(NULL, Station("France Culture"))]>>,
                            <<Null>> } }

\* the responses the fetches of natural_language_search's episode search are
\* answered with
RouterDiffusionsResponses ==
    { [kind |-> "raise", exc |-> "TransportServerError"],
      [kind |-> "data", taxonomy |-> Absent],
      [kind |-> "data", taxonomy |-> TaxonomyNode("t1", "Theme 1", List(<<>>))],
      [kind |-> "data", taxonomy |-> TaxonomyNode("t1", "Theme 1",
                                         List(<<RegDiffusion(1, "B")>>))] }

DiffusionsResponsesFor(invoked) ==
    IF invoked = "get_diffusions" THEN DiffusionsResponses
    ELSE IF invoked = "natural_language_search" THEN RouterDiffusionsResponses
    ELSE SearchDiffusionsResponses

--------------------------------------------------------------------------
(* get_taxonomies, server.py:54-81, after its credential check: what the   *)
(* tool returns for a response of the gateway.                             *)

\* lines 55-78, the try block
get_taxonomies_try(resp) ==
    IF resp.kind = "raise" THEN Raise(resp.exc)
    ELSE IF resp.taxonomies.k = "absent" THEN [t |-> "list", items |-> <<>>]
    ELSE IF resp.taxonomies.k = "null" THEN [t |-> "null"]
    ELSE [t |-> "list", items |-> resp.taxonomies.items]

get_taxonomies(resp) == TryExcept("Error getting taxonomies: ", get_taxonomies_try(resp))

--------------------------------------------------------------------------
(* get_diffusions, server.py:98-158.                                       *)

\* lines 141-150 raise AttributeError: .get of None
FormatDiffusionRaises(diffusion) ==
    \/ diffusion.k = "null"
    \/ /\ diffusion.k = "obj"
       /\ \/ diffusion.podcastEpisode.k = "null"
          \/ diffusion.brand.k = "null"
          \/ /\ diffusion.brand.k = "obj"
             /\ diffusion.brand.station.k = "null"

\* diffusion.get("brand", {}).get("title", "")
BrandTitleOf(brand) == IF brand.k = "absent" THEN "" ELSE Get(brand.title, "")

\* diffusion.get("brand", {}).get("station", {}).get("name", "")
StationNameOf(brand) ==
    IF brand.k = "absent" THEN ""
    ELSE IF brand.station.k = "absent" THEN ""
    ELSE Get(brand.station.name, "")

\* lines 141-150
FormatDiffusion(diffusion) ==
    [id |-> Get(diffusion.id, ""),
     title |-> Get(diffusion.title, ""),
     url |-> Get(diffusion.url, ""),
     description |-> Get(diffusion.standFirst, ""),
     diffusionDate |-> Get(diffusion.diffusionDate, ""),
     podcastUrl |-> IF diffusion.podcastEpisode.k = "absent" THEN ""
                    ELSE Get(diffusion.podcastEpisode.url, ""),
     brand |-> BrandTitleOf(diffusion.brand),
     station |-> StationNameOf(diffusion.brand)]

\* lines 99-155, the try block
get_diffusions_try(taxonomy_id, resp) ==
    IF resp.kind = "raise" THEN Raise(resp.exc)
    ELSE IF resp.taxonomy.k = "absent"
    THEN Err("No diffusions found for taxonomy ID: " \o taxonomy_id)
    ELSE IF resp.taxonomy.k = "null"
    THEN Raise("TypeError")                               \* "diffusions" in None
    ELSE IF resp.taxonomy.diffusions.k = "absent"
    THEN Err("No diffusions found for taxonomy ID: " \o taxonomy_id)
    ELSE IF resp.taxonomy.diffusions.k = "null"
    THEN Raise("TypeError")                               \* for ... in None
    ELSE LET items == resp.taxonomy.diffusions.items IN
         IF \E i \in 1..Len(items) : FormatDiffusionRaises(items[i])
         THEN Raise("AttributeError")
         ELSE [t |-> "dict",
               taxonomyId |-> Get(resp.taxonomy.id, ""),
               taxonomyTitle |-> Get(resp.taxonomy.title, ""),
               diffusions |-> [i \in 1..Len(items) |-> FormatDiffusion(items[i])]]

get_diffusions(taxonomy_id, resp) ==
    TryExcept("Error getting diffusions: ", get_diffusions_try(taxonomy_id, resp))

--------------------------------------------------------------------------
(* get_brand, server.py:174-242.                                           *)

Concept(id, title) == [k |-> "obj", id |-> id, title |-> title]

LatestDiffusion(id, title, url, standFirst, diffusionDate) ==
    [k |-> "obj", id |-> id, title |-> title, url |-> url, standFirst |-> standFirst,
     diffusionDate |-> diffusionDate]

BrandNode(id, title, description, url, station, concepts, latestDiffusions) ==
    [k |-> "obj", id |-> id, title |-> title, description |-> description, url |-> url,
     station |-> station, concepts |-> concepts, latestDiffusions |-> latestDiffusions]

RegConcept(i) == Concept("c" \o Ids[i], "Concept " \o Ids[i])

RegLatestDiffusion(i) ==
    LatestDiffusion("d" \o Ids[i], "Episode " \o Ids[i], "/e/" \o Ids[i], "About " \o Ids[i],
                    "2024-01-0" \o Ids[i])

RegBrandNode ==
    BrandNode("b1", "A", "A show", "/b/1", Station("France Culture"),
              List(<<RegConcept(1)>>), List(<<RegLatestDiffusion(1)>>))

\* the regular brand with one part of it missing or null
PartialBrandNodes ==
    LET b == RegBrandNode IN
      { [b EXCEPT ![f] = v] : f \in {"id", "title", "description", "url"},
                              v \in {NULL, ABSENT} }
      \cup { [b EXCEPT !.station = v] : v \in {Absent, Null, Station(NULL), Station(ABSENT)} }
      \cup { [b EXCEPT !.concepts = v] :
                 v \in {Absent, Null, List(<<>>), List(<<Null>>),
                        List(<<Concept(NULL, ABSENT), RegConcept(2)>>)} }
      \cup { [b EXCEPT !.latestDiffusions = v] :
                 v \in {Absent, Null, List(<<>>), List(<<Null>>),
                        List(<<RegLatestDiffusion(1), RegLatestDiffusion(2)>>),
                        List(<<LatestDiffusion(NULL, NULL, ABSENT, ABSENT, NULL)>>)} }
      \cup { BrandNode(ABSENT, ABSENT, ABSENT, ABSENT, Absent, Absent, Absent) }

BrandResponses ==
    Raises
    \cup { [kind |-> "data", brand |-> Absent], [kind |-> "data", brand |-> Null] }
    \cup { [kind |-> "data", brand |-> b] : b \in {RegBrandNode} \cup PartialBrandNodes }

\* a key of the brand holds a list whose loop raises: for ... in None, or .get of None
BrandListRaises(list) ==
    \/ list.k = "null"
    \/ /\ list.k = "list"
       /\ \E i \in 1..Len(list.items) : list.items[i].k = "null"

\* lines 220-225
FormatConcepts(concepts) ==
    IF concepts.k = "absent" THEN <<>>
    ELSE [i \in 1..Len(concepts.items) |->
             [id |-> Get(concepts.items[i].id, ""),
              title |-> Get(concepts.items[i].title, "")]]

\* lines 227-235
FormatLatestDiffusions(latest) ==
    IF latest.k = "absent" THEN <<>>
    ELSE [i \in 1..Len(latest.items) |->
             [id |-> Get(latest.items[i].id, ""),
              title |-> Get(latest.items[i].title, ""),
              url |-> Get(latest.items[i].url, ""),
              description |-> Get(latest.items[i].standFirst, ""),
              diffusionDate |-> Get(latest.items[i].diffusionDate, "")]]

\* lines 175-239, the try block
get_brand_try(brand_id, resp) ==
    IF resp.kind = "raise" THEN Raise(resp.exc)
    ELSE IF resp.brand.k = "absent" THEN Err("No brand found with ID: " \o brand_id)
    ELSE IF resp.brand.k = "null" THEN Raise("AttributeError")     \* None.get
    ELSE LET brand == resp.brand IN
         IF brand.station.k = "null" THEN Raise("AttributeError")
         ELSE IF BrandListRaises(brand.concepts) \/ BrandListRaises(brand.latestDiffusions)
         THEN Raise("TypeError")
         ELSE [t |-> "dict",
               id |-> Get(brand.id, ""),
               title |-> Get(brand.title, ""),
               description |-> Get(brand.description, ""),
               url |-> Get(brand.url, ""),
               station |-> IF brand.station.k = "absent" THEN ""
                           ELSE Get(brand.station.name, ""),
               concepts |-> FormatConcepts(brand.concepts),
               latestDiffusions |-> FormatLatestDiffusions(brand.latestDiffusions)]

\* get_brand without its except clause
get_brand_uncaught(brand_id, resp) == get_brand_try(brand_id, resp)

get_brand(brand_id, resp) ==
    TryExcept("Error getting brand information: ", get_brand_try(brand_id, resp))

--------------------------------------------------------------------------
(* get_station_grid, server.py:258-318.                                    *)

GridStation(id, name) == [k |-> "obj", id |-> id, name |-> name]
GridBrand(title) == [k |-> "obj", title |-> title]

GridDiffusion(id, title, standFirst, url, brand) ==
    [k |-> "obj", id |-> id, title |-> title, standFirst |-> standFirst, url |-> url,
     brand |-> brand]

Step(startTime, endTime, diffusion) ==
    [k |-> "obj", startTime |-> startTime, endTime |-> endTime, diffusion |-> diffusion]

GridNode(station, steps) == [k |-> "obj", station |-> station, steps |-> steps]

RegGridDiffusion(i) ==
    GridDiffusion("d" \o Ids[i], "Programme " \o Ids[i], "About " \o Ids[i],
                  "/p/" \o Ids[i], GridBrand("A"))

\* the i-th step of a response; its diffusion is there, is missing, or is null
StepKinds == {"diffusion", "absent", "null"}

KindStep(i, kind) ==
    Step("0" \o Ids[i] \o ":00", "0" \o Ids[i] \o ":59",
         IF kind = "diffusion" THEN RegGridDiffusion(i)
         ELSE IF kind = "absent" THEN Absent ELSE Null)

KindStepLists ==
    UNION { { [i \in 1..n |-> KindStep(i, ks[i])] : ks \in [1..n -> StepKinds] }
            : n \in 0..MaxSteps }

\* a regular step with one part of it missing or null
PartialSteps ==
    LET s == KindStep(1, "diffusion")
        d == RegGridDiffusion(1) IN
      { [s EXCEPT ![f] = v] : f \in {"startTime", "endTime"}, v \in {NULL, ABSENT} }
      \cup { [s EXCEPT !.diffusion = [d EXCEPT ![f] = v]] :
                 f \in {"id", "title", "standFirst", "url"}, v \in {NULL, ABSENT} }
      \cup { [s EXCEPT !.diffusion = [d EXCEPT !.brand = v]] :
                 v \in {Absent, Null, GridBrand(NULL), GridBrand(ABSENT)} }

\* grids of more programs than get_station_programs reports: six and seven steps
\* with a diffusion, and seven of which the first has none
LongStepLists ==
    { [i \in 1..n |-> KindStep(i, "diffusion")] : n \in 6..7 }
    \cup { [i \in 1..7 |-> KindStep(i, IF i = 1 THEN "absent" ELSE "diffusion")] }

StepLists ==
    KindStepLists \cup LongStepLists \cup { <<s>> : s \in PartialSteps } \cup { <<Null>> }

RegGridStation == GridStation("7", "France Culture")

GridResponses ==
    Raises
    \cup { [kind |-> "data", grid |-> Absent], [kind |-> "data", grid |-> Null],
           [kind |-> "data", grid |-> GridNode(RegGridStation, Absent)],
           [kind |-> "data", grid |-> GridNode(RegGridStation, Null)] }
    \cup { [kind |-> "data", grid |-> GridNode(RegGridStation, List(l))] : l \in StepLists }
    \cup { [kind |-> "data", grid |-> GridNode(s, List(<<KindStep(1, "diffusion")>>))] :
               s \in {Absent, Null, GridStation(NULL, NULL), GridStation(ABSENT, ABSENT)} }

\* lines 301-311 raise: "diffusion" in None, None.get
FormatStepRaises(step) ==
    \/ step.k = "null"
    \/ /\ step.k = "obj"
       /\ step.diffusion.k # "absent"                   \* "diffusion" in step
       /\ \/ step.diffusion.k = "null"
          \/ step.diffusion.brand.k = "null"

\* if "diffusion" in step
StepIsEmitted(step) == step.diffusion.k # "absent"

\* lines 303-311
FormatStep(step) ==
    [startTime |-> Get(step.startTime, ""),
     endTime |-> Get(step.endTime, ""),
     id |-> Get(step.diffusion.id, ""),
     title |-> Get(step.diffusion.title, ""),
     description |-> Get(step.diffusion.standFirst, ""),
     url |-> Get(step.diffusion.url, ""),
     brand |-> IF step.diffusion.brand.k = "absent" THEN ""
               ELSE Get(step.diffusion.brand.title, "")]

RECURSIVE FormatSteps(_)
\* lines 299-311: the loop over grid["steps"]
FormatSteps(steps) ==
    IF steps = <<>> THEN <<>>
    ELSE (IF StepIsEmitted(Head(steps)) THEN <<FormatStep(Head(steps))>> ELSE <<>>)
         \o FormatSteps(Tail(steps))

\* lines 259-315, the try block
get_station_grid_try(station_code, resp) ==
    IF resp.kind = "raise" THEN Raise(resp.exc)
    ELSE IF resp.grid.k = "absent" THEN Err("No grid found for station: " \o station_code)
    ELSE IF resp.grid.k = "null" THEN Raise("AttributeError")      \* None.get
    ELSE LET grid == resp.grid IN
         IF grid.station.k = "null" THEN Raise("AttributeError")
         ELSE IF grid.steps.k = "null" THEN Raise("TypeError")     \* for ... in None
         ELSE IF /\ grid.steps.k = "list"
                 /\ \E i \in 1..Len(grid.steps.items) : FormatStepRaises(grid.steps.items[i])
         THEN Raise("AttributeError")
         ELSE [t |-> "dict",
               stationName |-> IF grid.station.k = "absent" THEN ""
                               ELSE Get(grid.station.name, ""),
               stationId |-> IF grid.station.k = "absent" THEN ""
                             ELSE Get(grid.station.id, ""),
               programs |-> IF grid.steps.k = "absent" THEN <<>>
                            ELSE FormatSteps(grid.steps.items)]

get_station_grid(station_code, resp) ==
    TryExcept("Error getting station grid: ", get_station_grid_try(station_code, resp))

--------------------------------------------------------------------------
(* The invocation: its locals and its steps.                               *)

\* the locals before a tool is invoked
NoLocals ==
    [query |-> "",              \* query / topic / keyword / station_name / id argument
     limit |-> 0,               \* limit / max_results argument
     stage |-> "",              \* natural_language_search: the stage it awaits
     station_idx |-> 0,         \* natural_language_search: index into station_names
     station_name |-> "",       \* get_station_programs: its argument
     station_code |-> "",       \* get_station_programs / get_station_grid: the code
     taxonomies_data |-> <<>>,  \* search_podcasts: the taxonomies it loops over
     tax_idx |-> 0,             \* search_podcasts: index of the taxonomy being fetched
     all_diffusions |-> <<>>,   \* search_podcasts: the diffusions found, before sorting
     url |-> ""]                \* scrape_podcast_details / get_audio_content_info: the url

\* the state of the invocation, as one value
Config ==
    [pc |-> pc, loc |-> loc, result |-> result,
     gateway_calls |-> gateway_calls, stages |-> stages]

\* the tool invoked returns value
Return(c, value) == [c EXCEPT !.pc = "done", !.result = value]

\* await gql_client.execute_async(...)
Await(c, what, call) == [c EXCEPT !.pc = what, !.gateway_calls = Append(@, call)]

\* natural_language_search has run a stage, which returned data: "results" when the
\* stage ends the search, else "error" (with the error's message) or "empty"
Staged(c, stage, outcome, data) ==
    [c EXCEPT !.stages = Append(@, [stage |-> stage, outcome |-> outcome,
                                    error |-> IF IsError(data) THEN data.error ELSE ""])]

--------------------------------------------------------------------------
(* get_station_programs, server.py:681-749.                                *)

\* the keys of station_mapping (lines 683-691) and station_names (lines 821-822)
StationNames ==
    <<"France Inter", "France Info", "France Culture", "France Musique",
      "France Bleu", "FIP", "Mouv">>

\* the values of station_mapping, in the order of its keys
StationCodes ==
    <<"franceinter", "franceinfo", "franceculture", "francemusique",
      "francebleu", "fip", "mouv">>

\* lines 694-700, with the input itself for a name that is not in the table
ResolveStationCode_unnormalised(station_name) ==
    IF \E i \in 1..Len(StationNames) : StrLower(StationNames[i]) = StrLower(station_name)
    THEN StationCodes[CHOOSE i \in 1..Len(StationNames) :
                          StrLower(StationNames[i]) = StrLower(station_name)]
    ELSE station_name

\* lines 694-704
ResolveStationCode(station_name) ==
    IF \E i \in 1..Len(StationNames) : StationNames[i] = station_name
    THEN StationCodes[CHOOSE i \in 1..Len(StationNames) : StationNames[i] = station_name]
    ELSE IF \E i \in 1..Len(StationNames) :
                StrLower(StationNames[i]) = StrLower(station_name)
    THEN LET first == CHOOSE i \in 1..Len(StationNames) :
                 /\ StrLower(StationNames[i]) = StrLower(station_name)
                 /\ \A j \in 1..(i - 1) :
                        StrLower(StationNames[j]) # StrLower(station_name)
         IN  StationCodes[first]
    ELSE RemoveSpaces(StrLower(station_name))

\* lines 727-733 and 736-742
FormatProgram(program) ==
    [k |-> "obj", title |-> program.title, description |-> program.description,
     startTime |-> program.startTime, endTime |-> program.endTime, url |-> program.url]

\* programs[1:]
NextFive_all(programs) == SubSeq(programs, 2, Len(programs))

\* programs[1:6]
NextFive(programs) ==
    SubSeq(programs, 2, IF Len(programs) < 6 THEN Len(programs) ELSE 6)

\* lines 708-746 with the error of get_station_grid wrapped into an error of this tool
get_station_programs_rewrapped(station_name, grid_data) ==
    IF IsError(grid_data) THEN Err("Error getting station programs: " \o grid_data.error)
    ELSE LET programs == grid_data.programs IN
         [t |-> "dict",
          stationName |-> grid_data.stationName,
          currentProgram |-> IF programs # <<>> THEN FormatProgram(programs[1]) ELSE Null,
          upcomingPrograms |-> IF programs # <<>>
                               THEN [i \in 1..Len(NextFive(programs)) |->
                                        FormatProgram(NextFive(programs)[i])]
                               ELSE <<>>]

\* lines 708-746: what the tool returns for what get_station_grid returned
get_station_programs(station_name, grid_data) ==
    IF IsError(grid_data) THEN grid_data
    ELSE LET programs == grid_data.programs IN
         [t |-> "dict",
          stationName |-> grid_data.stationName,
          currentProgram |-> IF programs # <<>> THEN FormatProgram(programs[1]) ELSE Null,
          upcomingPrograms |-> IF programs # <<>>
                               THEN [i \in 1..Len(NextFive(programs)) |->
                                        FormatProgram(NextFive(programs)[i])]
                               ELSE <<>>]

--------------------------------------------------------------------------
(* natural_language_search, server.py:819-869.                             *)

\* the message of line 865
NLS_MESSAGE ==
    "No specific content found for your query. Try a more specific search term "
    \o "related to a podcast, episode, or Radio France station."

\* lines 862-866
nls_general(c) ==
    Return(c, [t |-> "dict", queryType |-> "general", searchTerm |-> c.loc.query,
               message |-> NLS_MESSAGE])

\* lines 851-866 with "len(taxonomies_data) > 1" at line 853
nls_after_taxonomies_several(c, taxonomies_data) ==
    IF taxonomies_data.t = "list" /\ Len(taxonomies_data.items) > 1
    THEN Return(Staged(c, "taxonomies", "results", taxonomies_data),
                [t |-> "dict", queryType |-> "taxonomies", searchTerm |-> c.loc.query,
                 results |-> taxonomies_data])
    ELSE nls_general(Staged(c, "taxonomies",
                            IF IsError(taxonomies_data) THEN "error" ELSE "empty",
                            taxonomies_data))

\* lines 851-866, get_taxonomies having returned taxonomies_data
nls_after_taxonomies(c, taxonomies_data) ==
    IF taxonomies_data.t = "list" /\ Len(taxonomies_data.items) > 0
    THEN Return(Staged(c, "taxonomies", "results", taxonomies_data),
                [t |-> "dict", queryType |-> "taxonomies", searchTerm |-> c.loc.query,
                 results |-> taxonomies_data])
    ELSE nls_general(Staged(c, "taxonomies",
                            IF IsError(taxonomies_data) THEN "error" ELSE "empty",
                            taxonomies_data))

\* lines 839-850 without "and len(episodes_data) > 0" at line 842
nls_after_episodes_any(c, episodes_data) ==
    IF episodes_data.t = "list"
    THEN Return(Staged(c, "episodes", "results", episodes_data),
                [t |-> "dict", queryType |-> "episodes", searchTerm |-> c.loc.query,
                 results |-> episodes_data])
    ELSE Await([Staged(c, "episodes", "error", episodes_data)
                   EXCEPT !.loc.stage = "taxonomies"],
               "await_taxonomies",
               [op |-> "taxonomies", keyword |-> c.loc.query, limit |-> c.loc.limit])

\* lines 839-850, search_episodes having returned episodes_data
nls_after_episodes(c, episodes_data) ==
    IF episodes_data.t = "list" /\ Len(episodes_data.items) > 0
    THEN Return(Staged(c, "episodes", "results", episodes_data),
                [t |-> "dict", queryType |-> "episodes", searchTerm |-> c.loc.query,
                 results |-> episodes_data])
    ELSE Await([Staged(c, "episodes", IF IsError(episodes_data) THEN "error" ELSE "empty",
                       episodes_data)
                   EXCEPT !.loc.stage = "taxonomies"],
               "await_taxonomies",
               [op |-> "taxonomies", keyword |-> c.loc.query, limit |-> c.loc.limit])

\* line 825
StationMentioned(query, i) == StrContains(StrLower(query), StrLower(StationNames[i]))

\* lines 837-838 alone: the episode search without the loop over station_names
nls_station_loop_skipped(c, i) ==
    Await([c EXCEPT !.loc.stage = "episodes"],
          "await_taxonomies",
          [op |-> "taxonomies", keyword |-> c.loc.query, limit |-> TaxonomyLimit])

\* lines 824-838: the loop over station_names from index i on, then search_episodes,
\* which calls search_podcasts, which calls get_taxonomies(query, limit=5) (line 630)
nls_station_loop(c, i) ==
    IF \E j \in i..Len(StationNames) : StationMentioned(c.loc.query, j)
    THEN LET j == CHOOSE j \in i..Len(StationNames) :
                 /\ StationMentioned(c.loc.query, j)
                 /\ \A h \in i..(j - 1) : ~StationMentioned(c.loc.query, h)
         IN  Await([c EXCEPT !.loc.stage = "station",
                             !.loc.station_idx = j,
                             !.loc.station_name = StationNames[j],
                             !.loc.station_code = ResolveStationCode(StationNames[j])],
                   "await_grid",
                   [op |-> "grid", station |-> ResolveStationCode(StationNames[j])])
    ELSE Await([c EXCEPT !.loc.stage = "episodes",
                         !.loc.station_idx = 0,
                         !.loc.station_name = "",
                         !.loc.station_code = ""],
               "await_taxonomies",
               [op |-> "taxonomies", keyword |-> c.loc.query, limit |-> TaxonomyLimit])

\* lines 827-835 without the test of line 829: the station's data is returned
\* whatever it is
nls_after_station_unchecked(c, station_data) ==
    Return(Staged(c, "station", IF IsError(station_data) THEN "error" ELSE "results",
                  station_data),
           [t |-> "dict", queryType |-> "station", searchTerm |-> c.loc.station_name,
            results |-> station_data])

\* lines 827-835, get_station_programs having returned station_data
nls_after_station(c, station_data) ==
    IF ~IsError(station_data)
    THEN Return(Staged(c, "station", "results", station_data),
                [t |-> "dict", queryType |-> "station", searchTerm |-> c.loc.station_name,
                 results |-> station_data])
    ELSE nls_station_loop(Staged(c, "station", "error", station_data),
                          c.loc.station_idx + 1)

--------------------------------------------------------------------------
(* search_episodes, server.py:768-800.                                     *)

\* lines 782-794 without the diffusionDate of line 786
FormatEpisode_undated(diffusion) ==
    [title |-> diffusion.title,
     description |-> diffusion.description,
     url |-> diffusion.url,
     publishedDate |-> "",
     duration |-> "",
     show |-> [title |-> diffusion.brand, url |-> ""],
     station |-> diffusion.station,
     taxonomyTitle |-> diffusion.taxonomyTitle]

\* lines 782-794
FormatEpisode(diffusion) ==
    [title |-> diffusion.title,
     description |-> diffusion.description,
     url |-> diffusion.url,
     publishedDate |-> diffusion.diffusionDate,
     duration |-> "",
     show |-> [title |-> diffusion.brand, url |-> ""],
     station |-> diffusion.station,
     taxonomyTitle |-> diffusion.taxonomyTitle]

\* lines 771-797: what the tool returns for what search_podcasts returned
search_episodes(search_data) ==
    IF IsError(search_data) THEN search_data
    ELSE [t |-> "list",
          items |-> [i \in 1..Len(search_data.results) |->
                        FormatEpisode(search_data.results[i])]]

--------------------------------------------------------------------------
(* search_podcasts, server.py:628-663.                                     *)

\* the characters of the model's texts, by increasing code point
CodePoints == " 0123456789ABCDEFGHIJKLMNOPQRSTUVWXYZabcdefghijklmnopqrstuvwxyz"

OrdTable ==
    [c \in { SubSeq(CodePoints, i, i) : i \in 1..Len(CodePoints) } |->
        CHOOSE i \in 1..Len(CodePoints) : SubSeq(CodePoints, i, i) = c]

\* ord(c), up to an offset
Ord(c) == OrdTable[c]

RECURSIVE StrLess(_, _)
\* a < b on str: by code points, a proper prefix first
StrLess(a, b) ==
    IF a = b \/ Len(b) = 0 THEN FALSE
    ELSE IF Len(a) = 0 THEN TRUE
    ELSE IF SubSeq(a, 1, 1) # SubSeq(b, 1, 1)
    THEN Ord(SubSeq(a, 1, 1)) < Ord(SubSeq(b, 1, 1))
    ELSE StrLess(SubSeq(a, 2, Len(a)), SubSeq(b, 2, Len(b)))

RECURSIVE InsertByBrand_unstable(_, _)
\* x put into the sorted seq before every element that is not less than it: a sort
\* that reverses the elements of equal brand
InsertByBrand_unstable(seq, x) ==
    IF seq = <<>> THEN <<x>>
    ELSE IF ~StrLess(Head(seq).brand, x.brand) THEN <<x>> \o seq
    ELSE <<Head(seq)>> \o InsertByBrand_unstable(Tail(seq), x)

RECURSIVE InsertByBrand(_, _)
\* x put into the sorted seq behind every element that is not greater than it
InsertByBrand(seq, x) ==
    IF seq = <<>> THEN <<x>>
    ELSE IF StrLess(x.brand, Head(seq).brand) THEN <<x>> \o seq
    ELSE <<Head(seq)>> \o InsertByBrand(Tail(seq), x)

RECURSIVE SortedByBrand(_)
\* sorted(all_diffusions, key=lambda x: x.get("brand", "")): ascending and stable
SortedByBrand(seq) ==
    IF seq = <<>> THEN <<>>
    ELSE InsertByBrand(SortedByBrand(SubSeq(seq, 1, Len(seq) - 1)), seq[Len(seq)])

\* sorted raises TypeError: a key that is None is compared
SortRaises(seq) == Len(seq) >= 2 /\ \E i \in 1..Len(seq) : seq[i].brand = NULL

\* the try block of search_podcasts ends with outcome (a value returned or an
\* exception, lines 662-663); the tool returns to its caller: the invocation itself,
\* or search_episodes, itself invoked or called by natural_language_search (line 838)
search_podcasts_returns(c, outcome) ==
    LET value == TryExcept("Error searching podcasts: ", outcome) IN
    IF tool = "search_podcasts" THEN Return(c, value)
    ELSE LET back == [c EXCEPT !.loc.taxonomies_data = <<>>,
                               !.loc.tax_idx = 0,
                               !.loc.all_diffusions = <<>>]
         IN  IF tool = "search_episodes" THEN Return(c, search_episodes(value))
             ELSE nls_after_episodes(back, search_episodes(value))

\* lines 653-660 without the slice of line 655
search_podcasts_finish_unsliced(c) ==
    IF SortRaises(c.loc.all_diffusions)
    THEN search_podcasts_returns(c, Raise("TypeError"))
    ELSE search_podcasts_returns(c,
             [t |-> "dict", query |-> c.loc.query,
              results |-> SortedByBrand(c.loc.all_diffusions)])

\* lines 653-660
search_podcasts_finish(c) ==
    IF SortRaises(c.loc.all_diffusions)
    THEN search_podcasts_returns(c, Raise("TypeError"))
    ELSE search_podcasts_returns(c,
             [t |-> "dict", query |-> c.loc.query,
              results |-> Take(SortedByBrand(c.loc.all_diffusions), c.loc.limit)])

\* limit//len(taxonomies_data), without the + 1 of line 643
Share_exact(limit, taxonomyCount) == limit \div taxonomyCount

\* limit//len(taxonomies_data) + 1
Share(limit, taxonomyCount) == (limit \div taxonomyCount) + 1

RECURSIVE search_podcasts_loop(_, _)
\* lines 640-643: the loop over taxonomies_data from index i on, up to the next
\* get_diffusions; past the last taxonomy, lines 653-660
search_podcasts_loop(c, i) ==
    LET taxonomies_data == c.loc.taxonomies_data IN
    IF i > Len(taxonomies_data) THEN search_podcasts_finish(c)
    ELSE IF taxonomies_data[i].k = "null"
    THEN search_podcasts_returns(c, Raise("AttributeError"))
    ELSE IF Truthy(Get(taxonomies_data[i].id, ""))
    THEN Await([c EXCEPT !.loc.tax_idx = i], "await_diffusions",
               [op |-> "taxonomy", taxonomyId |-> taxonomies_data[i].id,
                limit |-> Share(c.loc.limit, Len(taxonomies_data))])
    ELSE search_podcasts_loop(c, i + 1)

\* lines 631-643 with the share of line 643 computed ahead of the loop
search_podcasts_after_taxonomies_share_first(c, taxonomies_data) ==
    IF IsError(taxonomies_data) THEN search_podcasts_returns(c, taxonomies_data)
    ELSE IF taxonomies_data.t = "null"
    THEN search_podcasts_returns(c, Raise("TypeError"))
    ELSE IF taxonomies_data.items = <<>>
    THEN search_podcasts_returns(c, Raise("ZeroDivisionError"))
    ELSE search_podcasts_loop([c EXCEPT !.loc.taxonomies_data = taxonomies_data.items,
                                        !.loc.all_diffusions = <<>>], 1)

\* lines 631-638, get_taxonomies having returned taxonomies_data
search_podcasts_after_taxonomies(c, taxonomies_data) ==
    IF IsError(taxonomies_data) THEN search_podcasts_returns(c, taxonomies_data)
    ELSE IF taxonomies_data.t = "null"
    THEN search_podcasts_returns(c, Raise("TypeError"))
    ELSE search_podcasts_loop([c EXCEPT !.loc.taxonomies_data = taxonomies_data.items,
                                        !.loc.all_diffusions = <<>>], 1)

\* lines 649-650
TagDiffusion(diffusion, taxonomy) ==
    [id |-> diffusion.id, title |-> diffusion.title, url |-> diffusion.url,
     description |-> diffusion.description, diffusionDate |-> diffusion.diffusionDate,
     podcastUrl |-> diffusion.podcastUrl, brand |-> diffusion.brand,
     station |-> diffusion.station,
     taxonomyTitle |-> Get(taxonomy.title, ""),
     taxonomyType |-> Get(taxonomy.type, "")]

\* lines 644-660 with the sort at the end of the first pass of the loop
search_podcasts_after_diffusions_early(c, diffusions_data) ==
    LET taxonomy == c.loc.taxonomies_data[c.loc.tax_idx]
        found == IF diffusions_data.t = "dict"
                 THEN [i \in 1..Len(diffusions_data.diffusions) |->
                          TagDiffusion(diffusions_data.diffusions[i], taxonomy)]
                 ELSE <<>>
    IN  search_podcasts_finish([c EXCEPT !.loc.all_diffusions = @ \o found])

\* lines 644-651, get_diffusions having returned diffusions_data, then the loop
search_podcasts_after_diffusions(c, diffusions_data) ==
    LET taxonomy == c.loc.taxonomies_data[c.loc.tax_idx]
        found == IF diffusions_data.t = "dict"
                 THEN [i \in 1..Len(diffusions_data.diffusions) |->
                          TagDiffusion(diffusions_data.diffusions[i], taxonomy)]
                 ELSE <<>>
    IN  search_podcasts_loop([c EXCEPT !.loc.all_diffusions = @ \o found],
                             c.loc.tax_idx + 1)

--------------------------------------------------------------------------
(* The pages of the web site, as BeautifulSoup's selectors see them.  A    *)
(* page is given by the elements each selector of the code matches, in     *)
(* document order, and by what select_one finds inside each of them.       *)

WEBSITE_BASE_URL == "https://www.radiofrance.fr"
PODCASTS_BASE_URL == "https://www.radiofrance.fr/podcasts"

\* client.get raises, or response.raise_for_status() does
HttpRaises == { [kind |-> "raise", exc |-> "ConnectError"],
                [kind |-> "raise", exc |-> "HTTPStatusError"] }

\* the site's base before url, whatever url starts with
Resolve_always(url) == WEBSITE_BASE_URL \o url

\* url unless it starts with "http", else the site's base before it
\* (server.py:358-359, 372-373, 409-410, 438-439, 459-460, 502-503)
Resolve(url) == IF StartsWith(url, "http") THEN url ELSE WEBSITE_BASE_URL \o url

RECURSIVE Rep(_, _)
\* s * n
Rep(s, n) ==
    IF n = 0 THEN ""
    ELSE IF n % 2 = 0 THEN LET half == Rep(s, n \div 2) IN half \o half
    ELSE s \o Rep(s, n - 1)

\* str(soup.select('body')[0]) of a body of n characters, n >= 13
BodyHtml(n) == "<body>" \o Rep("x", n - 13) \o "</body>"

\* the length sample_html is cut to (server.py:383, 479)
SampleHtmlLimit == 1000
\* the length the html of a player element is cut to (server.py:598)
PlayerHtmlLimit == 200

Bodies ==
    { Absent }
    \cup { [k |-> "obj", html |-> BodyHtml(n)] :
               n \in {13, SampleHtmlLimit - 1, SampleHtmlLimit, SampleHtmlLimit + 1,
                      2 * SampleHtmlLimit} }

\* lines 383, 479
SampleHtml(body) ==
    IF body.k = "absent" THEN "No body found"
    ELSE SubSeq(body.html, 1, IF Len(body.html) < SampleHtmlLimit
                              THEN Len(body.html) ELSE SampleHtmlLimit)

--------------------------------------------------------------------------
(* scrape_podcast_categories, server.py:328-395.                           *)

\* the longest list of elements a selector matches
MaxElements == 2

\* an <a> element: its text, and its href (ABSENT: the attribute is missing)
Anchor(text, href) == [name |-> "a", text |-> text, href |-> href]

\* any other element: the text of its first 'h2, h3, .title, .name' (ABSENT: there
\* is none), and its first <a> (Absent: there is none)
Container(name_element, url_element) ==
    [name |-> "div", name_element |-> name_element, url_element |-> url_element]

Link(href) == [k |-> "obj", href |-> href]

Anchors ==
    { Anchor("Histoire", "/podcasts/histoire"),
      Anchor(" Sciences ", "https://www.radiofrance.fr/podcasts/sciences"),
      Anchor("  ", "/podcasts/vide"),
      Anchor("Musique", ""),
      Anchor("Culture", ABSENT) }

Containers ==
    { Container("Histoire ", Link("/podcasts/histoire")),
      Container(ABSENT, Link("/podcasts/sans-titre")),
      Container("Sciences", Absent),
      Container("Culture", Link(ABSENT)),
      Container("", Link("http://autre.example/")) }

ListsOf(pool, n) == UNION { [1..m -> pool] : m \in 0..n }

\* the podcasts page: its body, the elements '.rf-taxonomy-item, .category-item,
\* .theme-item, .podcast-category' matches and those 'nav li a, .categories a,
\* .themes a' matches
CategoriesPage(body, specific, generic) ==
    [body |-> body, specific |-> specific, generic |-> generic]

CategoriesPages ==
    { CategoriesPage(b, s, g) :
        b \in Bodies,
        s \in ListsOf(Anchors \cup Containers, MaxElements) \ {<<>>},
        g \in {<<>>, <<Anchor("Histoire", "/podcasts/histoire")>>} }
    \cup { CategoriesPage(b, <<>>, g) : b \in Bodies, g \in ListsOf(Anchors, MaxElements) }

CategoriesResponses ==
    HttpRaises \cup { [kind |-> "page", page |-> p] : p \in CategoriesPages }

\* lines 344-349
CategoryElements(page) == IF page.specific # <<>> THEN page.specific ELSE page.generic

\* line 355 raises KeyError: element['href'] of an <a> without href
CategoryRaises(element) == element.name = "a" /\ element.href = ABSENT

\* lines 353-378: the categories the element adds
CategoryOf(element) ==
    IF element.name = "a"
    THEN IF Strip(element.text) # "" /\ element.href # ""
         THEN <<[name |-> Strip(element.text), url |-> Resolve(element.href)]>>
         ELSE <<>>
    ELSE IF /\ element.name_element # ABSENT
            /\ element.url_element.k = "obj"
            /\ element.url_element.href # ABSENT
         THEN <<[name |-> Strip(element.name_element),
                 url |-> Resolve(element.url_element.href)]>>
         ELSE <<>>

RECURSIVE CategoriesOf(_)
\* lines 351-378
CategoriesOf(elements) ==
    IF elements = <<>> THEN <<>>
    ELSE CategoryOf(Head(elements)) \o CategoriesOf(Tail(elements))

\* lines 329-392, the try block, for the response to its client.get
scrape_podcast_categories_try(resp) ==
    IF resp.kind = "raise" THEN Raise(resp.exc)
    ELSE LET elements == CategoryElements(resp.page) IN
         IF \E i \in 1..Len(elements) : CategoryRaises(elements[i])
         THEN Raise("KeyError")
         ELSE IF CategoriesOf(elements) = <<>>
         THEN [t |-> "dict", categories |-> <<>>,
               debug |-> [message |-> "No categories found with current selectors",
                          sampleHtml |-> SampleHtml(resp.page.body)]]
         ELSE [t |-> "dict", categories |-> CategoriesOf(elements)]

scrape_podcast_categories(resp) ==
    TryExcept("Error scraping podcast categories: ", scrape_podcast_categories_try(resp))

--------------------------------------------------------------------------
(* scrape_podcast_details, server.py:398-488.                              *)

\* element.text.strip() if element else ""   (element: its text, or ABSENT)
TextOf(element) == IF element = ABSENT THEN "" ELSE Strip(element)

\* an element '.podcast-episode, .episode-item, .diffusion-item, [data-testid=
\* "episode"]' matches: the texts of its title, date and duration elements (ABSENT:
\* there is none) and its first 'a, [data-testid="episode-link"]'
EpisodeElement(title, date, duration, link) ==
    [title |-> title, date |-> date, duration |-> duration, link |-> link]

\* an element 'li.episode, article, .card' matches: the texts of its first heading
\* and date element, and its first 'a[href]'
GenericElement(title, date, link) == [title |-> title, date |-> date, link |-> link]

EpisodeElements ==
    { EpisodeElement(" Episode 1 ", "1 mai", "58 min", Link("/podcasts/e1")),
      EpisodeElement("Episode 2", ABSENT, ABSENT, Link("https://www.radiofrance.fr/e2")),
      EpisodeElement(ABSENT, "2 mai", ABSENT, Link("/podcasts/e3")),
      EpisodeElement("Episode 4", ABSENT, ABSENT, Link(ABSENT)),
      EpisodeElement("Episode 5", ABSENT, ABSENT, Absent) }

GenericElements ==
    { GenericElement("Article 1 ", " 3 mai", Link("/podcasts/a1")),
      GenericElement(ABSENT, ABSENT, Link("/podcasts/a2")),
      GenericElement("Article 3", ABSENT, Absent) }

\* the page of a podcast: its body, the texts of its first title, description and
\* author elements (heading; ABSENT: there is none), and the elements the two episode
\* selectors match
DetailsPage(body, heading, episode_elements, generic_elements) ==
    [body |-> body, title_element |-> heading[1],
     description_element |-> heading[2], author_element |-> heading[3],
     episode_elements |-> episode_elements, generic_elements |-> generic_elements]

DetailsPages ==
    { DetailsPage(b, h, e, g) :
        b \in {Absent, [k |-> "obj", html |-> BodyHtml(SampleHtmlLimit + 1)]},
        h \in { <<ABSENT, ABSENT, ABSENT>>, <<" Le Podcast ", "Une description", ABSENT>>,
                <<ABSENT, ABSENT, "Une autrice">> },
        e \in ListsOf(EpisodeElements, MaxElements),
        g \in {<<>>} \cup { <<x>> : x \in GenericElements } }

DetailsResponses == HttpRaises \cup { [kind |-> "page", page |-> p] : p \in DetailsPages }

\* lines 431-446: the episodes the element adds
EpisodeOf(element) ==
    IF /\ element.title # ABSENT
       /\ element.link.k = "obj"
       /\ element.link.href # ABSENT
    THEN <<[title |-> TextOf(element.title),
            date |-> TextOf(element.date),
            duration |-> TextOf(element.duration),
            url |-> Resolve(element.link.href)]>>
    ELSE <<>>

\* lines 453-467: the episodes the element adds
GenericEpisodeOf(element) ==
    IF element.title # ABSENT /\ element.link.k = "obj" /\ element.link.href # ABSENT
    THEN <<[title |-> Strip(element.title),
            date |-> TextOf(element.date),
            duration |-> "",
            url |-> Resolve(element.link.href)]>>
    ELSE <<>>

RECURSIVE EpisodesOf(_)
\* lines 430-446
EpisodesOf(elements) ==
    IF elements = <<>> THEN <<>>
    ELSE EpisodeOf(Head(elements)) \o EpisodesOf(Tail(elements))

RECURSIVE GenericEpisodesOf(_)
\* lines 452-467
GenericEpisodesOf(elements) ==
    IF elements = <<>> THEN <<>>
    ELSE GenericEpisodeOf(Head(elements)) \o GenericEpisodesOf(Tail(elements))

\* lines 427-467
DetailsEpisodes(page) ==
    IF EpisodesOf(page.episode_elements) # <<>> THEN EpisodesOf(page.episode_elements)
    ELSE GenericEpisodesOf(page.generic_elements)

\* lines 409-485, the try block, for the response to its client.get
scrape_podcast_details_try(podcast_url, resp) ==
    IF resp.kind = "raise" THEN Raise(resp.exc)
    ELSE LET page == resp.page
             found == [t |-> "dict",
                       title |-> TextOf(page.title_element),
                       description |-> TextOf(page.description_element),
                       author |-> TextOf(page.author_element),
                       url |-> Resolve(podcast_url),
                       episodes |-> DetailsEpisodes(page)]
         IN  IF page.title_element = ABSENT /\ DetailsEpisodes(page) = <<>>
             THEN [t |-> "dict",
                   title |-> found.title, description |-> found.description,
                   author |-> found.author, url |-> found.url,
                   episodes |-> found.episodes,
                   debug |-> [message |->
                                  "Limited podcast information found with current selectors",
                              sampleHtml |-> SampleHtml(page.body)]]
             ELSE found

scrape_podcast_details(podcast_url, resp) ==
    TryExcept("Error scraping podcast details: ",
              scrape_podcast_details_try(podcast_url, resp))

--------------------------------------------------------------------------
(* get_audio_content_info, server.py:491-609.                              *)

RECURSIVE FindFrom(_, _, _)
\* s.find(sub, start), in 1-based positions: 0 when sub does not occur from start on
FindFrom(s, sub, start) ==
    IF start + Len(sub) - 1 > Len(s) THEN 0
    ELSE IF SubSeq(s, start, start + Len(sub) - 1) = sub THEN start
    ELSE FindFrom(s, sub, start + 1)

\* the first 'script[type="application/ld+json"]': there is none (Absent), json.loads
\* of it raises ("invalid"), or it is what json.loads returns: null, an object (of
\* which the keys contentUrl, name, description, duration are read) or a list
JsonLdObject(contentUrl, name, description, duration) ==
    [k |-> "obj", contentUrl |-> contentUrl, name |-> name,
     description |-> description, duration |-> duration]

\* an item of a JSON-LD list that is not an object
JsonLdScalar == [k |-> "scalar"]

JsonLds ==
    { Absent, [k |-> "invalid"], Null,
      JsonLdObject("https://cdn.example/ld.mp3", "Nom", "Texte", "PT58M"),
      JsonLdObject(ABSENT, "Nom", ABSENT, ABSENT),
      List(<<>>),
      List(<<JsonLdScalar, JsonLdObject(ABSENT, ABSENT, "Texte", ABSENT),
             JsonLdObject("https://cdn.example/list.aac", "Nom", "Autre", NULL),
             JsonLdObject("https://cdn.example/late.mp3", "Tard", "Tard", "PT1M")>>),
      List(<<JsonLdObject(NULL, NULL, ABSENT, ABSENT)>>) }

\* the first '[data-audio-src], [data-media-src], audio source, [data-testid=
\* "audio-player"] source': the four attributes read (ABSENT: not an attribute)
AudioElement(data_audio_src, data_media_src, data_src, src) ==
    [k |-> "obj", data_audio_src |-> data_audio_src, data_media_src |-> data_media_src,
     data_src |-> data_src, src |-> src]

AudioElements ==
    { Absent,
      AudioElement(ABSENT, "https://cdn.example/media.mp3", ABSENT, "/other.mp3"),
      AudioElement(ABSENT, ABSENT, ABSENT, "/stream.aac"),
      AudioElement("", ABSENT, ABSENT, "https://cdn.example/src.mp3"),
      AudioElement(ABSENT, ABSENT, ABSENT, ABSENT) }

\* a <script>: script.string is None (Null), or its lines
Script(lines) == [k |-> "obj", lines |-> lines]

ScriptLines ==
    { "mp3 http://a.example \"https://cdn.example/one.mp3\"",
      "audioUrl at http: \"/two.aac\"",
      "audioUrl: \"https://cdn.example/three.mp3\", format: \"mp3\"",
      "audioURL = \"https://cdn.example/four.mp3\";",
      "var mp3 = 1;",
      "see http://a.example \"x\"" }

Scripts ==
    { Null }
    \cup { Script(<<l>>) : l \in ScriptLines }
    \cup { Script(<<"var mp3 = 1;", "mp3 http://a.example \"https://cdn.example/one.mp3\"",
                    "audioUrl at http: \"/two.aac\"">>) }

ScriptLists ==
    {<<>>} \cup { <<s>> : s \in Scripts }
    \cup { <<Script(<<a>>), Script(<<b>>)>> :
             a, b \in { "mp3 http://a.example \"https://cdn.example/one.mp3\"",
                        "audioUrl at http: \"/two.aac\"",
                        "var mp3 = 1;" } }

\* str(el) of the elements '.player, [data-testid="player"], audio, .rf-player' matches
PlayerLists ==
    { <<>>,
      <<"<audio>" \o Rep("x", PlayerHtmlLimit) \o "</audio>", "<div class=\"player\"></div>",
        "<div class=\"rf-player\"></div>">> }

\* the page of an episode: what the selectors of the code find in it; heading is the
\* texts of its first title, description and duration elements (ABSENT: there is none)
AudioPage(json_ld, audio_element, scripts, heading, player_elements) ==
    [json_ld |-> json_ld, audio_element |-> audio_element, scripts |-> scripts,
     title_element |-> heading[1], description_element |-> heading[2],
     duration_element |-> heading[3], player_elements |-> player_elements]

AudioPages ==
    { AudioPage(j, a, s, h, p) :
        j \in JsonLds, a \in AudioElements, s \in ScriptLists,
        h \in { <<ABSENT, ABSENT, ABSENT>>, <<" Titre ", ABSENT, "12:00">>,
                <<"Titre", "Description", ABSENT>> },
        p \in PlayerLists }

AudioResponses == HttpRaises \cup { [kind |-> "page", page |-> p] : p \in AudioPages }

\* lines 516-522: json_ld, None (Null) unless the script is there and parses
ParsedJsonLd(page) ==
    IF page.json_ld.k \in {"absent", "invalid"} THEN Null ELSE page.json_ld

\* truth value of json_ld
JsonLdTruthy(json_ld) ==
    \/ json_ld.k = "obj"
    \/ json_ld.k = "list" /\ json_ld.items # <<>>

\* lines 528-533: audio_url after the player element (NULL: None)
PlayerAudioUrl(audio_element) ==
    IF audio_element.k = "absent" THEN NULL
    ELSE IF audio_element.data_audio_src # ABSENT THEN audio_element.data_audio_src
    ELSE IF audio_element.data_media_src # ABSENT THEN audio_element.data_media_src
    ELSE IF audio_element.data_src # ABSENT THEN audio_element.data_src
    ELSE IF audio_element.src # ABSENT THEN audio_element.src
    ELSE NULL

RECURSIVE FirstContentUrl(_, _)
\* lines 540-543: the contentUrl of the first object of the list that has the key
FirstContentUrl(items, audio_url) ==
    IF items = <<>> THEN audio_url
    ELSE IF Head(items).k = "obj" /\ Head(items).contentUrl # ABSENT
    THEN Head(items).contentUrl
    ELSE FirstContentUrl(Tail(items), audio_url)

\* lines 537-543 without the test of audio_url at line 536
JsonLdAudioUrl_always(json_ld, audio_url) ==
    IF ~JsonLdTruthy(json_ld) THEN audio_url
    ELSE IF json_ld.k = "obj"
    THEN Get(json_ld.contentUrl, NULL)
    ELSE FirstContentUrl(json_ld.items, audio_url)

\* lines 536-543
JsonLdAudioUrl(json_ld, audio_url) ==
    IF Truthy(audio_url) \/ ~JsonLdTruthy(json_ld) THEN audio_url
    ELSE IF json_ld.k = "obj"
    THEN Get(json_ld.contentUrl, NULL)
    ELSE FirstContentUrl(json_ld.items, audio_url)

\* 'audioURL' in s or 'audioUrl' in s or 'mp3' in s
HasAudioWord(s) ==
    StrContains(s, "audioURL") \/ StrContains(s, "audioUrl") \/ StrContains(s, "mp3")

RECURSIVE ScanLines(_, _)
\* lines 551-559: audio_url after the lines of one script; the break at line 559
\* leaves this loop
ScanLines(lines, audio_url) ==
    IF lines = <<>> THEN audio_url
    ELSE LET line == Head(lines)
             start_quote == FindFrom(line, "\"", FindFrom(line, "http", 1))
             end_quote == FindFrom(line, "\"", start_quote + 1)
         IN  IF /\ HasAudioWord(line)
                /\ StrContains(line, "http")
                /\ start_quote # 0
                /\ end_quote # 0
             THEN SubSeq(line, start_quote + 1, end_quote - 1)
             ELSE ScanLines(Tail(lines), audio_url)

RECURSIVE ScanScripts(_, _)
\* lines 547-559: audio_url after the scripts
ScanScripts(scripts, audio_url) ==
    IF scripts = <<>> THEN audio_url
    ELSE IF Head(scripts).k = "null"
    THEN ScanScripts(Tail(scripts), audio_url)
    ELSE ScanScripts(Tail(scripts), ScanLines(Head(scripts).lines, audio_url))

\* lines 546-559
ScriptAudioUrl(scripts, audio_url) ==
    IF Truthy(audio_url) THEN audio_url ELSE ScanScripts(scripts, audio_url)

\* lines 528-559
AudioUrlOf(page) ==
    ScriptAudioUrl(page.scripts,
                   JsonLdAudioUrl(ParsedJsonLd(page), PlayerAudioUrl(page.audio_element)))

\* a or b, of strings-or-None
Or(a, b) == IF Truthy(a) THEN a ELSE b

\* title, description and duration as the DOM gives them (lines 567-569)
DomMetadata(page) ==
    [title |-> TextOf(page.title_element),
     description |-> TextOf(page.description_element),
     duration |-> TextOf(page.duration_element)]

\* lines 573-575, 579-581
FillMetadata(m, item) ==
    [title |-> Or(m.title, Get(item.name, "")),
     description |-> Or(m.description, Get(item.description, "")),
     duration |-> Or(m.duration, Get(item.duration, ""))]

RECURSIVE FillFromList(_, _)
\* lines 577-583
FillFromList(m, items) ==
    IF items = <<>> THEN m
    ELSE IF Head(items).k # "obj" THEN FillFromList(m, Tail(items))
    ELSE LET filled == FillMetadata(m, Head(items)) IN
         IF Truthy(filled.title) /\ Truthy(filled.description) THEN filled
         ELSE FillFromList(filled, Tail(items))

\* lines 567-583
MetadataOf(page) ==
    LET m == DomMetadata(page)
        json_ld == ParsedJsonLd(page)
    IN  IF (Truthy(m.title) /\ Truthy(m.description)) \/ ~JsonLdTruthy(json_ld) THEN m
        ELSE IF json_ld.k = "obj" THEN FillMetadata(m, json_ld)
        ELSE FillFromList(m, json_ld.items)

\* str(el)[:200] for el in player_elements[:2]   (line 598)
PlayerHtml(player_elements) ==
    [i \in 1..(IF Len(player_elements) < 2 THEN Len(player_elements) ELSE 2) |->
        SubSeq(player_elements[i], 1,
               IF Len(player_elements[i]) < PlayerHtmlLimit
               THEN Len(player_elements[i]) ELSE PlayerHtmlLimit)]

\* lines 502-606, the try block, for the response to its client.get
get_audio_content_info_try(url, resp) ==
    IF resp.kind = "raise" THEN Raise(resp.exc)
    ELSE LET page == resp.page
             audio_url == AudioUrlOf(page)
             m == MetadataOf(page)
             streamFormat == IF Truthy(audio_url) /\ StrContains(audio_url, ".mp3")
                             THEN "mp3" ELSE "Unknown"
         IN  IF Truthy(audio_url)
             THEN [t |-> "dict", title |-> m.title, description |-> m.description,
                   duration |-> m.duration, pageUrl |-> Resolve(url),
                   audioUrl |-> audio_url, streamFormat |-> streamFormat]
             ELSE [t |-> "dict", title |-> m.title, description |-> m.description,
                   duration |-> m.duration, pageUrl |-> Resolve(url),
                   audioUrl |-> audio_url, streamFormat |-> streamFormat,
                   debug |-> [message |-> "No audio URL found with current selectors",
                              playerElements |-> PlayerHtml(page.player_elements),
                              hasJsonLd |-> ParsedJsonLd(page).k # "null"]]

get_audio_content_info(url, resp) ==
    TryExcept("Error getting audio content information: ",
              get_audio_content_info_try(url, resp))

--------------------------------------------------------------------------
(* The arguments the tools are invoked with.                               *)

Limits == 0..MaxLimit
UrlInputs == {"/podcasts/histoire", "https://www.radiofrance.fr/franceculture"}
Queries == {"histoire", "Jazz sur FIP", "mouv ou France Inter"}
Topics == {"histoire"}
StationInputs == {"France Culture", "france culture", "FIP", "Radio Nova", "franceinter"}
StationCodeInputs == {"franceculture", "nova"}
TaxonomyIdInputs == {"t1"}
BrandIdInputs == {"b1"}

--------------------------------------------------------------------------
(* The steps.                                                              *)

\* the state of an invocation that has not been made: what a coroutine's variables
\* hold while the event loop runs another one
NoInvocation ==
    [tool |-> "none", pc |-> "idle", loc |-> NoLocals, result |-> NoResult,
     gateway_calls |-> <<>>, http_calls |-> <<>>, reply |-> [kind |-> "none"],
     stages |-> <<>>]

Init ==
    /\ API_KEY \in BOOLEAN
    /\ tool = "none"
    /\ pc = "idle"
    /\ loc = NoLocals
    /\ result = NoResult
    /\ gateway_calls = <<>>
    /\ http_calls = <<>>
    /\ reply = [kind |-> "none"]
    /\ stages = <<>>
    /\ suspended = NoInvocation

\* the invocation moves on to c
Becomes(c) ==
    /\ pc' = c.pc
    /\ loc' = c.loc
    /\ result' = c.result
    /\ gateway_calls' = c.gateway_calls
    /\ stages' = c.stages

\* a tool without the credential check is invoked
InvokeApiTool_unchecked(name, c) ==
    /\ pc = "idle"
    /\ tool' = name
    /\ Becomes(c)
    /\ UNCHANGED <<API_KEY, suspended, http_calls, reply>>

\* a tool whose first lines are "if not API_KEY: return ..." is invoked: it returns
\* the error, or runs up to its first await, which leaves it as c
InvokeApiTool(name, c) ==
    /\ pc = "idle"
    /\ tool' = name
    /\ Becomes(IF ~API_KEY THEN Return(Config, Err(ERR_API_KEY)) ELSE c)
    /\ UNCHANGED <<API_KEY, suspended, http_calls, reply>>

\* server.py:41-72
Invoke_get_taxonomies(keyword, limit) ==
    InvokeApiTool("get_taxonomies",
        Await([Config EXCEPT !.loc.query = keyword, !.loc.limit = limit],
              "await_taxonomies",
              [op |-> "taxonomies", keyword |-> keyword, limit |-> limit]))

\* server.py:85-129
Invoke_get_diffusions(taxonomy_id, limit) ==
    InvokeApiTool("get_diffusions",
        Await([Config EXCEPT !.loc.query = taxonomy_id, !.loc.limit = limit],
              "await_diffusions",
              [op |-> "taxonomy", taxonomyId |-> taxonomy_id, limit |-> limit]))

\* server.py:162-205
Invoke_get_brand(brand_id) ==
    InvokeApiTool("get_brand",
        Await([Config EXCEPT !.loc.query = brand_id],
              "await_brand", [op |-> "brand", brandId |-> brand_id]))

\* server.py:246-288
Invoke_get_station_grid(station_code) ==
    InvokeApiTool("get_station_grid",
        Await([Config EXCEPT !.loc.station_code = station_code],
              "await_grid", [op |-> "grid", station |-> station_code]))

\* server.py:613-630, up to get_taxonomies' await
Invoke_search_podcasts(query, limit) ==
    InvokeApiTool("search_podcasts",
        Await([Config EXCEPT !.loc.query = query, !.loc.limit = limit],
              "await_taxonomies",
              [op |-> "taxonomies", keyword |-> query, limit |-> TaxonomyLimit]))

\* server.py:667-707, up to get_station_grid's await
Invoke_get_station_programs(station_name) ==
    InvokeApiTool("get_station_programs",
        Await([Config EXCEPT !.loc.station_name = station_name,
                             !.loc.station_code = ResolveStationCode(station_name)],
              "await_grid",
              [op |-> "grid", station |-> ResolveStationCode(station_name)]))

\* server.py:753-770, up to get_taxonomies' await in search_podcasts
Invoke_search_episodes(topic, limit) ==
    InvokeApiTool("search_episodes",
        Await([Config EXCEPT !.loc.query = topic, !.loc.limit = limit],
              "await_taxonomies",
              [op |-> "taxonomies", keyword |-> topic, limit |-> TaxonomyLimit]))

\* server.py:804-838, up to the first await
Invoke_natural_language_search(query, max_results) ==
    InvokeApiTool("natural_language_search",
        nls_station_loop([Config EXCEPT !.loc.query = query, !.loc.limit = max_results], 1))

\* gql_client.execute_async answers the taxonomies query (server.py:69-72)
TaxonomiesResponse ==
    /\ pc = "await_taxonomies"
    /\ \E resp \in TaxonomiesResponses :
         /\ LET taxonomies_data == get_taxonomies(resp) IN
            Becomes(IF tool = "get_taxonomies" THEN Return(Config, taxonomies_data)
                    ELSE IF tool = "natural_language_search" /\ loc.stage = "taxonomies"
                    THEN nls_after_taxonomies(Config, taxonomies_data)
                    ELSE search_podcasts_after_taxonomies(Config, taxonomies_data))
         /\ reply' = resp
    /\ UNCHANGED <<API_KEY, suspended, tool, http_calls>>

\* gql_client.execute_async answers the diffusions query (server.py:126-129)
DiffusionsResponse ==
    /\ pc = "await_diffusions"
    /\ \E resp \in DiffusionsResponsesFor(tool) :
         /\ Becomes(IF tool = "get_diffusions"
                    THEN Return(Config, get_diffusions(loc.query, resp))
                    ELSE search_podcasts_after_diffusions(Config,
                             get_diffusions(loc.taxonomies_data[loc.tax_idx].id, resp)))
         /\ reply' = resp
    /\ UNCHANGED <<API_KEY, suspended, tool, http_calls>>

\* gql_client.execute_async answers the brand query (server.py:202-205)
BrandResponse ==
    /\ pc = "await_brand"
    /\ \E resp \in BrandResponses :
         /\ Becomes(Return(Config, get_brand(loc.query, resp)))
         /\ reply' = resp
    /\ UNCHANGED <<API_KEY, suspended, tool, http_calls>>

\* gql_client.execute_async answers the grid query (server.py:285-288)
GridResponse ==
    /\ pc = "await_grid"
    /\ \E resp \in GridResponses :
         /\ LET grid_data == get_station_grid(loc.station_code, resp) IN
            Becomes(IF tool = "get_station_grid" THEN Return(Config, grid_data)
                    ELSE IF tool = "get_station_programs"
                    THEN Return(Config, get_station_programs(loc.station_name, grid_data))
                    ELSE nls_after_station(Config,
                             get_station_programs(loc.station_name, grid_data)))
         /\ reply' = resp
    /\ UNCHANGED <<API_KEY, suspended, tool, http_calls>>

\* a scraping tool is invoked with url and runs up to client.get's await
InvokeScrapingTool(name, url, target) ==
    /\ pc = "idle"
    /\ tool' = name
    /\ pc' = "await_http"
    /\ loc' = [loc EXCEPT !.url = url]
    /\ http_calls' = Append(http_calls, target)
    /\ UNCHANGED <<API_KEY, suspended, result, gateway_calls, reply, stages>>

\* server.py:322-334, up to client.get's await
Invoke_scrape_podcast_categories ==
    InvokeScrapingTool("scrape_podcast_categories", "", PODCASTS_BASE_URL)

\* server.py:399-417, up to client.get's await
Invoke_scrape_podcast_details(podcast_url) ==
    InvokeScrapingTool("scrape_podcast_details", podcast_url, Resolve(podcast_url))

\* server.py:492-510, up to client.get's await
Invoke_get_audio_content_info(url) ==
    InvokeScrapingTool("get_audio_content_info", url, Resolve(url))

\* client.get answers scrape_podcast_categories (server.py:330-335)
CategoriesResponse ==
    /\ pc = "await_http"
    /\ tool = "scrape_podcast_categories"
    /\ \E resp \in CategoriesResponses :
         /\ Becomes(Return(Config, scrape_podcast_categories(resp)))
         /\ reply' = resp
    /\ UNCHANGED <<API_KEY, suspended, tool, http_calls>>

\* client.get answers scrape_podcast_details (server.py:413-418)
DetailsResponse ==
    /\ pc = "await_http"
    /\ tool = "scrape_podcast_details"
    /\ \E resp \in DetailsResponses :
         /\ Becomes(Return(Config, scrape_podcast_details(loc.url, resp)))
         /\ reply' = resp
    /\ UNCHANGED <<API_KEY, suspended, tool, http_calls>>

\* client.get answers get_audio_content_info (server.py:506-511)
AudioResponse ==
    /\ pc = "await_http"
    /\ tool = "get_audio_content_info"
    /\ \E resp \in AudioResponses :
         /\ Becomes(Return(Config, get_audio_content_info(loc.url, resp)))
         /\ reply' = resp
    /\ UNCHANGED <<API_KEY, suspended, tool, http_calls>>

Next ==
    \/ \E keyword \in Topics : Invoke_get_taxonomies(keyword, DefaultLimit)
    \/ \E taxonomy_id \in TaxonomyIdInputs : Invoke_get_diffusions(taxonomy_id, DefaultLimit)
    \/ \E brand_id \in BrandIdInputs : Invoke_get_brand(brand_id)
    \/ \E station_code \in StationCodeInputs : Invoke_get_station_grid(station_code)
    \/ \E query \in Topics, limit \in Limits \cup {-1} :
           Invoke_search_podcasts(query, limit)
    \/ \E station_name \in StationInputs : Invoke_get_station_programs(station_name)
    \/ \E topic \in Topics, limit \in Limits : Invoke_search_episodes(topic, limit)
    \/ \E query \in Queries, max_results \in Limits :
           Invoke_natural_language_search(query, max_results)
    \/ TaxonomiesResponse
    \/ DiffusionsResponse
    \/ BrandResponse
    \/ GridResponse
    \/ Invoke_scrape_podcast_categories
    \/ CategoriesResponse
    \/ \E podcast_url \in UrlInputs : Invoke_scrape_podcast_details(podcast_url)
    \/ DetailsResponse
    \/ \E url \in UrlInputs : Invoke_get_audio_content_info(url)
    \/ AudioResponse

Spec == Init /\ [][Next]_vars

--------------------------------------------------------------------------
(* Two invocations in progress.  The tools are coroutines of one event     *)
(* loop: one of them runs, from an await to its next await or its return,  *)
(* while the other is suspended at its await with its locals.  The module  *)
(* variables API_KEY and gql_client are the only state both can reach.     *)

\* the state of the invocation the event loop runs, as one value
Invocation ==
    [tool |-> tool, pc |-> pc, loc |-> loc, result |-> result,
     gateway_calls |-> gateway_calls, http_calls |-> http_calls, reply |-> reply,
     stages |-> stages]

\* at an await the event loop turns to the other invocation, and the local variables
\* are those of its coroutine, the module's are left
Switch_shared_locals ==
    /\ tool' = suspended.tool
    /\ pc' = suspended.pc
    /\ loc' = loc
    /\ result' = suspended.result
    /\ gateway_calls' = suspended.gateway_calls
    /\ http_calls' = suspended.http_calls
    /\ reply' = suspended.reply
    /\ stages' = suspended.stages
    /\ suspended' = Invocation
    /\ UNCHANGED API_KEY

\* at an await (or before a tool is invoked, or after it returned) the event loop
\* turns to the other invocation
Switch ==
    /\ tool' = suspended.tool
    /\ pc' = suspended.pc
    /\ loc' = suspended.loc
    /\ result' = suspended.result
    /\ gateway_calls' = suspended.gateway_calls
    /\ http_calls' = suspended.http_calls
    /\ reply' = suspended.reply
    /\ stages' = suspended.stages
    /\ suspended' = Invocation
    /\ UNCHANGED API_KEY

\* the limit search_podcasts is invoked with when two invocations are in progress
ConcurrentLimit == 2

\* the station names get_station_programs is invoked with when two invocations are
\* in progress
ConcurrentStations == {"FIP", "france culture"}

\* the tools explored next to the tool name: search_podcasts next to get_taxonomies,
\* get_station_programs next to get_taxonomies or another get_station_programs
Partners(name) ==
    IF name = "search_podcasts" THEN {"none", "get_taxonomies"}
    ELSE IF name = "get_station_programs"
    THEN {"none", "get_taxonomies", "get_station_programs"}
    ELSE {"none", "get_taxonomies", "search_podcasts", "get_station_programs"}

NextConcurrent ==
    \/ \E keyword \in Topics : Invoke_get_taxonomies(keyword, DefaultLimit)
    \/ /\ suspended.tool \in Partners("search_podcasts")
       /\ \E query \in Topics : Invoke_search_podcasts(query, ConcurrentLimit)
    \/ /\ suspended.tool \in Partners("get_station_programs")
       /\ \E station_name \in ConcurrentStations : Invoke_get_station_programs(station_name)
    \/ TaxonomiesResponse
    \/ DiffusionsResponse
    \/ GridResponse
    \/ Switch

SpecConcurrent == Init /\ [][NextConcurrent]_vars

--------------------------------------------------------------------------
(* The properties.                                                         *)

\* the invocation of the tool has returned
Done(name) == tool = name /\ pc = "done"

ApiTools ==
    {"get_taxonomies", "get_diffusions", "get_brand", "get_station_grid",
     "search_podcasts", "get_station_programs", "search_episodes",
     "natural_language_search"}

ScrapingTools ==
    {"scrape_podcast_categories", "scrape_podcast_details", "get_audio_content_info"}

\* the indexes of the station names the query contains
MentionedStations(query) ==
    { i \in 1..Len(StationNames) : StationMentioned(query, i) }

\* the stages of the kind natural_language_search has run, in order
StagesOf(stage) == SelectSeq(stages, LAMBDA e : e.stage = stage)

\* the message of an error object that reports a transport or remote failure
IsRemoteFailure(msg) == StrContains(msg, "Transport")

(* ---- C1 ---- *)

C2_ErrorPropagates ==
    Done("natural_language_search")
    => \A i \in 1..Len(stages) :
          (stages[i].outcome = "error" /\ IsRemoteFailure(stages[i].error))
          => (i = Len(stages) /\ IsError(result))

(* ---- C3 ---- *)

\* C3: when the query contains no station name, the episode search returned an empty
\* list and the gateway answers the taxonomy query with at least one taxonomy,
\* natural_language_search returns queryType "taxonomies" with the query as
\* searchTerm and those taxonomies, as they were answered, as results.
C3_FallsThroughToTaxonomies ==
    ( /\ Done("natural_language_search")
      /\ Len(stages) = 2
      /\ stages[1].stage = "episodes"
      /\ stages[1].outcome = "empty"
      /\ reply.kind = "data"
      /\ reply.taxonomies.k = "list"
      /\ Len(reply.taxonomies.items) > 0
      /\ MentionedStations(loc.query) = {} )
    => /\ result.t = "dict"
       /\ result.queryType = "taxonomies"
       /\ result.searchTerm = loc.query
       /\ result.results.t = "list"
       /\ result.results.items = reply.taxonomies.items
       /\ gateway_calls[Len(gateway_calls)] =
              [op |-> "taxonomies", keyword |-> loc.query, limit |-> loc.limit]

\* the episode search found a taxonomy whose diffusions were empty, and the taxonomy
\* stage then returned that one taxonomy
C3_Witness ==
    /\ Done("natural_language_search")
    /\ MentionedStations(loc.query) = {}
    /\ Len(stages) = 2
    /\ stages[1] = [stage |-> "episodes", outcome |-> "empty", error |-> ""]
    /\ Len(gateway_calls) = 3
    /\ reply.kind = "data"
    /\ reply.taxonomies.k = "list"
    /\ Len(reply.taxonomies.items) = 1
    /\ result.queryType = "taxonomies"

(* ---- C4 ---- *)

\* the tools that make one remote call
SingleCallTools ==
    {"get_taxonomies", "get_diffusions", "get_brand", "get_station_grid",
     "get_station_programs"} \cup ScrapingTools

C5_MissingCredential ==
    ~API_KEY
    => /\ gateway_calls = <<>>
       /\ tool \in ApiTools
          => (pc = "done" /\ result = Err(ERR_API_KEY) /\ http_calls = <<>>)
       /\ tool \in ScrapingTools
          => (Len(http_calls) = 1 /\ result # Err(ERR_API_KEY))

\* natural_language_search was invoked without the credential and has returned
C5_Witness ==
    /\ ~API_KEY
    /\ Done("natural_language_search")
    /\ result = Err(ERR_API_KEY)
    /\ gateway_calls = <<>>

(* ---- C6 ---- *)

\* C6: search_podcasts, invoked with limit >= 0, returns at most limit results.
C6_AtMostLimit ==
    (Done("search_podcasts") /\ result.t = "dict" /\ loc.limit >= 0)
    => Len(result.results) <= loc.limit

\* more diffusions were found than the limit allows, and limit of them are returned
C6_Witness ==
    /\ Done("search_podcasts")
    /\ result.t = "dict"
    /\ loc.limit >= 1
    /\ Len(loc.all_diffusions) > loc.limit
    /\ Len(result.results) = loc.limit

(* ---- C7 ---- *)

\* C7: the results of search_podcasts are diffusions that were found, in ascending
\* order of brand title (by code points), and two results of the same brand title
\* are in the order they were found in (loc.all_diffusions, which lists the
\* diffusions taxonomy by taxonomy in the order of the taxonomy lookup).
C7_SortedStable ==
    (Done("search_podcasts") /\ result.t = "dict")
    => LET results == result.results
           found == loc.all_diffusions
       IN  /\ \A i \in 1..Len(results) : \E p \in 1..Len(found) : found[p] = results[i]
           /\ \A i, j \in 1..Len(results) :
                 i < j => ~StrLess(results[j].brand, results[i].brand)
           /\ \A i, j \in 1..Len(results) :
                 (i < j /\ results[i].brand = results[j].brand)
                 => \E p, q \in 1..Len(found) :
                       p < q /\ found[p] = results[i] /\ found[q] = results[j]

\* the diffusions were found with brands B, A, B; the results are A, then the first
\* B found, then the second
C7_Witness ==
    /\ Done("search_podcasts")
    /\ result.t = "dict"
    /\ Len(loc.all_diffusions) = 3
    /\ Len(result.results) = 3
    /\ loc.all_diffusions[1].brand = "B"
    /\ loc.all_diffusions[2].brand = "A"
    /\ loc.all_diffusions[3].brand = "B"
    /\ result.results = <<loc.all_diffusions[2], loc.all_diffusions[1],
                          loc.all_diffusions[3]>>

(* ---- C8 ---- *)

\* every field of the record is a string, not null
NoNullField(record) == \A f \in DOMAIN record : record[f] # NULL

\* every item of the list is an object
AllObjects(items) == \A i \in 1..Len(items) : items[i].k = "obj"

\* C8: for a response whose root object is there and whose lists are lists of objects,
\* whatever field or nested object of it is missing or null, get_diffusions, get_brand
\* and get_station_grid return no error, and every string field of what they return
\* is a string.
C8_NormalizersTotal ==
    /\ ( /\ Done("get_diffusions")
         /\ reply.kind = "data"
         /\ reply.taxonomy.k = "obj"
         /\ reply.taxonomy.diffusions.k = "list"
         /\ AllObjects(reply.taxonomy.diffusions.items) )
       => /\ result.t = "dict"
          /\ result.taxonomyId # NULL
          /\ result.taxonomyTitle # NULL
          /\ \A i \in 1..Len(result.diffusions) : NoNullField(result.diffusions[i])
    /\ ( /\ Done("get_brand")
         /\ reply.kind = "data"
         /\ reply.brand.k = "obj"
         /\ reply.brand.concepts.k \in {"absent", "list"}
         /\ reply.brand.latestDiffusions.k \in {"absent", "list"}
         /\ reply.brand.concepts.k = "list" => AllObjects(reply.brand.concepts.items)
         /\ reply.brand.latestDiffusions.k = "list"
            => AllObjects(reply.brand.latestDiffusions.items) )
       => /\ result.t = "dict"
          /\ \A f \in {"id", "title", "description", "url", "station"} : result[f] # NULL
          /\ \A i \in 1..Len(result.concepts) : NoNullField(result.concepts[i])
          /\ \A i \in 1..Len(result.latestDiffusions) :
                NoNullField(result.latestDiffusions[i])
    /\ ( /\ Done("get_station_grid")
         /\ reply.kind = "data"
         /\ reply.grid.k = "obj"
         /\ reply.grid.steps.k \in {"absent", "list"}
         /\ reply.grid.steps.k = "list" => AllObjects(reply.grid.steps.items) )
       => /\ result.t = "dict"
          /\ result.stationName # NULL
          /\ result.stationId # NULL
          /\ \A i \in 1..Len(result.programs) : NoNullField(result.programs[i])

(* ---- C9 ---- *)

\* the step has no diffusion: the key is missing, or it is null
HasNoDiffusion(step) == step.diffusion.k \in {"absent", "null"}

\* the steps a grid may hold for C9: objects whose diffusion is missing, null, or an
\* object with a brand that is not null
PlainSteps(items) ==
    \A i \in 1..Len(items) :
        /\ items[i].k = "obj"
        /\ ~HasNoDiffusion(items[i]) => items[i].diffusion.brand.k # "null"

\* C9: get_station_grid does not fail on steps without a diffusion (missing or null):
\* it returns one program for every step that has a diffusion, in the order of the
\* steps, and none for the others.
C9_StepsWithoutDiffusion ==
    ( /\ Done("get_station_grid")
      /\ reply.kind = "data"
      /\ reply.grid.k = "obj"
      /\ reply.grid.station.k = "obj"
      /\ reply.grid.steps.k = "list"
      /\ PlainSteps(reply.grid.steps.items) )
    => LET kept == SelectSeq(reply.grid.steps.items, LAMBDA step : ~HasNoDiffusion(step))
       IN  /\ result.t = "dict"
           /\ Len(result.programs) = Len(kept)
           /\ \A i \in 1..Len(kept) :
                 /\ result.programs[i].id = Get(kept[i].diffusion.id, "")
                 /\ result.programs[i].startTime = Get(kept[i].startTime, "")

(* ---- C10 ---- *)

\* neither group of selectors matches an element that gives a category: every
\* element matched is an <a> without href, or an element the code skips
NoUsableCategory(page) ==
    \A elements \in {page.specific, page.generic} :
        \A i \in 1..Len(elements) :
            CategoryRaises(elements[i]) \/ CategoryOf(elements[i]) = <<>>

\* C10: when no group of selectors gives a usable category, also when the anchors
\* matched have no href, scrape_podcast_categories returns no error but an empty list
\* of categories with a debug object: a message and at most 1000 characters of html.
C10_DegradedShape ==
    ( /\ Done("scrape_podcast_categories")
      /\ reply.kind = "page"
      /\ NoUsableCategory(reply.page) )
    => /\ result.t = "dict"
       /\ result.categories = <<>>
       /\ DOMAIN result = {"t", "categories", "debug"}
       /\ result.debug.message = "No categories found with current selectors"
       /\ Len(result.debug.sampleHtml) <= SampleHtmlLimit

(* ---- C11 ---- *)

\* the href attributes of the elements of a categories page
CategoryHrefs(page) ==
    LET elements == page.specific \o page.generic IN
    { elements[i].href : i \in { j \in 1..Len(elements) : elements[j].name = "a" } }
    \cup { elements[i].url_element.href :
             i \in { j \in 1..Len(elements) :
                       elements[j].name # "a" /\ elements[j].url_element.k = "obj" } }

\* the href attributes of the links of the episodes of a podcast's page
EpisodeHrefs(page) ==
    LET elements == page.episode_elements \o page.generic_elements IN
    { elements[i].link.href : i \in { j \in 1..Len(elements) : elements[j].link.k = "obj" } }

\* url is the resolved form of one of the hrefs: the href itself when it starts with
\* "http", else the href behind the base of the site; resolving it again, or
\* resolving the href twice, changes nothing
IsResolvedFrom(url, hrefs) ==
    /\ Resolve(url) = url
    /\ \E h \in hrefs \ {ABSENT} :
          /\ url = IF StartsWith(h, "http") THEN h ELSE WEBSITE_BASE_URL \o h
          /\ Resolve(h) = url
          /\ Resolve(Resolve(h)) = Resolve(h)

\* C11: resolving a url twice gives what resolving it once gives, and a url that
\* starts with "http" is left as it is; every url of a category or an episode that a
\* scraping tool returns, and the url a page is fetched from, is a resolved form.
C11_ResolveIdempotent ==
    /\ (tool \in {"scrape_podcast_details", "get_audio_content_info"})
       => /\ Resolve(Resolve(loc.url)) = Resolve(loc.url)
          /\ StartsWith(loc.url, "http") => Resolve(loc.url) = loc.url
          /\ IsResolvedFrom(http_calls[1], {loc.url})
    /\ (Done("scrape_podcast_categories") /\ result.t = "dict")
       => \A i \in 1..Len(result.categories) :
             IsResolvedFrom(result.categories[i].url, CategoryHrefs(reply.page))
    /\ (Done("scrape_podcast_details") /\ result.t = "dict")
       => /\ IsResolvedFrom(result.url, {loc.url})
          /\ \A i \in 1..Len(result.episodes) :
                IsResolvedFrom(result.episodes[i].url, EpisodeHrefs(reply.page))

\* the categories returned hold a url that was relative, now behind the base of the
\* site, and a url that was absolute, as it was
C11_Witness ==
    /\ Done("scrape_podcast_categories")
    /\ result.t = "dict"
    /\ Len(result.categories) = 2
    /\ reply.page.specific = <<>>
    /\ reply.page.generic[1].href = "/podcasts/histoire"
    /\ result.categories[1].url = "https://www.radiofrance.fr/podcasts/histoire"
    /\ reply.page.generic[2].href = "https://www.radiofrance.fr/podcasts/sciences"
    /\ result.categories[2].url = "https://www.radiofrance.fr/podcasts/sciences"

(* ---- C12 ---- *)

\* the steps of the grid the gateway answered with that get_station_grid returns as
\* programs: those that hold the key "diffusion"
ProgramSteps(grid) ==
    IF grid.steps.k = "absent" THEN <<>>
    ELSE SelectSeq(grid.steps.items, LAMBDA step : step.diffusion.k # "absent")

\* the program get_station_programs reports is the one of the step
IsProgramOf(program, step) ==
    /\ program.k = "obj"
    /\ program.title = Get(step.diffusion.title, "")
    /\ program.description = Get(step.diffusion.standFirst, "")
    /\ program.url = Get(step.diffusion.url, "")
    /\ program.startTime = Get(step.startTime, "")
    /\ program.endTime = Get(step.endTime, "")

\* C12: when get_station_programs returns no error, currentProgram is the first
\* program of the station's grid and upcomingPrograms are the programs after it, in
\* order, up to five of them; without any program currentProgram is null and
\* upcomingPrograms is empty.
C12_CurrentAndUpcoming ==
    (Done("get_station_programs") /\ result.t = "dict")
    => LET programs == ProgramSteps(reply.grid)
           upcoming == result.upcomingPrograms
       IN  /\ Len(upcoming) <= 5
           /\ IF programs = <<>>
              THEN result.currentProgram = Null /\ upcoming = <<>>
              ELSE /\ IsProgramOf(result.currentProgram, programs[1])
                   /\ Len(upcoming) = IF Len(programs) - 1 < 5 THEN Len(programs) - 1 ELSE 5
                   /\ \A i \in 1..Len(upcoming) : IsProgramOf(upcoming[i], programs[i + 1])

\* the grid has seven programs: the first is the current one, the second to the sixth
\* are the upcoming ones, the seventh is not reported
C12_Witness ==
    /\ Done("get_station_programs")
    /\ result.t = "dict"
    /\ Len(ProgramSteps(reply.grid)) = 7
    /\ result.currentProgram.title = "Programme 1"
    /\ Len(result.upcomingPrograms) = 5
    /\ result.upcomingPrograms[1].title = "Programme 2"
    /\ result.upcomingPrograms[5].title = "Programme 6"

(* ---- C13 ---- *)

\* C13: a result of natural_language_search that is no error object has one of the
\* four query types, and its shape is the one of its type: "station" has the
\* programs object of a station the query names, which is the searchTerm; "episodes"
\* and "taxonomies" have a list that is not empty, and the query as searchTerm;
\* "general" has no results but a message, and the query as searchTerm.
C13_QueryTypeShape ==
    (Done("natural_language_search") /\ ~IsError(result))
    => /\ result.t = "dict"
       /\ result.queryType \in {"station", "episodes", "taxonomies", "general"}
       /\ result.queryType = "station"
          => /\ DOMAIN result = {"t", "queryType", "searchTerm", "results"}
             /\ result.results.t = "dict"
             /\ DOMAIN result.results =
                    {"t", "stationName", "currentProgram", "upcomingPrograms"}
             /\ \E i \in MentionedStations(loc.query) : result.searchTerm = StationNames[i]
       /\ result.queryType \in {"episodes", "taxonomies"}
          => /\ DOMAIN result = {"t", "queryType", "searchTerm", "results"}
             /\ result.results.t = "list"
             /\ Len(result.results.items) > 0
             /\ result.searchTerm = loc.query
       /\ result.queryType = "general"
          => /\ DOMAIN result = {"t", "queryType", "searchTerm", "message"}
             /\ Len(result.message) > 0
             /\ result.searchTerm = loc.query

\* the episode search found an episode, which is the result
C13_Witness ==
    /\ Done("natural_language_search")
    /\ result.t = "dict"
    /\ result.queryType = "episodes"
    /\ Len(result.results.items) = 1
    /\ result.results.items[1].show.title = "B"
    /\ result.searchTerm = "histoire"

(* ---- C14 ---- *)

\* C14: when the last call search_podcasts made of the gateway, the taxonomy lookup
\* or the fetch of a taxonomy's diffusions, failed with a transport or remote error,
\* search_podcasts returns an error.
C14_SubCallErrorStops ==
    (Done("search_podcasts") /\ reply.kind = "raise")
    => IsError(result)

(* ---- C15 ---- *)

\* natural_language_search has called the stage: it awaits it, or it has run it
Invoked(stage) ==
    \/ loc.stage = stage
    \/ \E i \in 1..Len(stages) : stages[i].stage = stage

IsNotFound(data) == IsError(data) /\ StartsWith(data.error, "No ")

\* C16: only a response without its root key is reported as not found, and not as
\* the value an empty collection gives: get_diffusions does not report a taxonomy
\* that came without its diffusions collection as not found but returns it with an
\* empty list of diffusions, and get_taxonomies does not return the empty list for
\* a response without the taxonomies key
C16_NotFoundOnlyWithoutRoot ==
    /\ ( /\ Done("get_diffusions")
         /\ reply.kind = "data"
         /\ reply.taxonomy.k = "obj"
         /\ reply.taxonomy.diffusions.k = "absent" )
       => /\ ~IsNotFound(result)
          /\ result.t = "dict"
          /\ result.diffusions = <<>>
    /\ ( /\ Done("get_taxonomies")
         /\ reply.kind = "data"
         /\ reply.taxonomies.k = "absent" )
       => result # get_taxonomies([kind |-> "data", taxonomies |-> List(<<>>)])

(* ---- C17 ---- *)

\* no element of the group makes the extraction raise
GroupReadable(elements) == \A i \in 1..Len(elements) : ~CategoryRaises(elements[i])

\* C17: the groups of selectors are tried in order and the first one with a valid
\* match wins: the categories returned are those of the specific selectors when
\* they give at least one valid category, and otherwise those of the generic
\* selectors, also when the specific selectors matched elements none of which is
\* valid; the episodes returned are those of the episode selectors when they give
\* at least one valid episode, and otherwise those of the generic selectors
C17_FirstValidGroupWins ==
    /\ ( /\ Done("scrape_podcast_categories")
         /\ reply.kind = "page"
         /\ GroupReadable(reply.page.specific)
         /\ GroupReadable(reply.page.generic) )
       => /\ result.t = "dict"
          /\ result.categories =
                IF CategoriesOf(reply.page.specific) # <<>>
                THEN CategoriesOf(reply.page.specific)
                ELSE CategoriesOf(reply.page.generic)
    /\ (Done("scrape_podcast_details") /\ reply.kind = "page")
       => /\ result.t = "dict"
          /\ result.episodes =
                IF EpisodesOf(reply.page.episode_elements) # <<>>
                THEN EpisodesOf(reply.page.episode_elements)
                ELSE GenericEpisodesOf(reply.page.generic_elements)

(* ---- C18 ---- *)

\* C18: the audio URL comes from an ordered fallback.  A strategy yields a URL when
\* the value it finds is a non-empty text.  The value of the player element's media
\* attribute is the audioUrl whenever the player yields one; the contentUrl of the
\* embedded metadata is the audioUrl only when the player yields none, and then
\* whenever the metadata yields one; the URL of the script scan is the audioUrl only
\* when neither yields one; and audioUrl is null only when none of the three yields
\* a URL.
C18_OrderedFallback ==
    (Done("get_audio_content_info") /\ reply.kind = "page")
    => LET player == PlayerAudioUrl(reply.page.audio_element)
           metadata == JsonLdAudioUrl(ParsedJsonLd(reply.page), NULL)
           scan == ScanScripts(reply.page.scripts, NULL)
       IN  /\ result.t = "dict"
           /\ Truthy(player) => result.audioUrl = player
           /\ (~Truthy(player) /\ Truthy(metadata)) => result.audioUrl = metadata
           /\ (~Truthy(player) /\ ~Truthy(metadata) /\ Truthy(scan))
              => result.audioUrl = scan
           /\ result.audioUrl = NULL
              => (~Truthy(player) /\ ~Truthy(metadata) /\ ~Truthy(scan))

\* the page has a player element without media attribute and metadata without
\* contentUrl: the URL of a script is the audioUrl
C18_Witness ==
    /\ Done("get_audio_content_info")
    /\ reply.kind = "page"
    /\ reply.page.audio_element = AudioElement(ABSENT, ABSENT, ABSENT, ABSENT)
    /\ reply.page.json_ld = JsonLdObject(ABSENT, "Nom", ABSENT, ABSENT)
    /\ result.t = "dict"
    /\ result.audioUrl = "https://cdn.example/one.mp3"

(* ---- C19 ---- *)

\* C19: get_station_programs, with the credential set, queries the grid exactly
\* once, for the code of the table entry whose name is the input; if there is none,
\* for the code of the entry whose name is the input up to case; if there is none
\* either, for the input in lower case without its spaces
C19_ResolvesThenQueriesOnce ==
    (tool = "get_station_programs" /\ API_KEY)
    => LET name == loc.station_name
           exact == { i \in 1..Len(StationNames) : StationNames[i] = name }
           caseless == { i \in 1..Len(StationNames) :
                           StrLower(StationNames[i]) = StrLower(name) }
       IN  /\ Len(gateway_calls) = 1
           /\ gateway_calls[1].op = "grid"
           /\ \A i \in exact : gateway_calls[1].station = StationCodes[i]
           /\ exact = {}
              => \A i \in caseless : gateway_calls[1].station = StationCodes[i]
           /\ caseless = {}
              => gateway_calls[1].station = RemoveSpaces(StrLower(name))

\* "Radio Nova" is in the table under no spelling: the grid of "radionova" was
\* queried, once, and the tool returned what the remote made of it
C19_Witness ==
    /\ Done("get_station_programs")
    /\ API_KEY
    /\ loc.station_name = "Radio Nova"
    /\ gateway_calls = <<[op |-> "grid", station |-> "radionova"]>>
    /\ reply.kind = "data"

(* ---- C20 ---- *)

\* the episode record of a diffusion of the search result
EpisodeRecord(diffusion) ==
    [title |-> diffusion.title,
     description |-> diffusion.description,
     url |-> diffusion.url,
     publishedDate |-> diffusion.diffusionDate,
     duration |-> "",
     show |-> [title |-> diffusion.brand, url |-> ""],
     station |-> diffusion.station,
     taxonomyTitle |-> diffusion.taxonomyTitle]

\* C20: search_episodes searches as search_podcasts does with its topic and limit
\* (taxonomies by the topic, then diffusions by the share of the limit), and what it
\* returns, when not an error object, is the list of the episode records of the
\* diffusions of that search's result, one for each, in its order: the first limit
\* diffusions found, sorted by brand; the empty list when the result is empty
C20_EpisodePerDiffusion ==
    (tool = "search_episodes" /\ API_KEY)
    => /\ gateway_calls # <<>>
       /\ gateway_calls[1] =
             [op |-> "taxonomies", keyword |-> loc.query, limit |-> TaxonomyLimit]
       /\ \A i \in 2..Len(gateway_calls) :
             /\ gateway_calls[i].op = "taxonomy"
             /\ gateway_calls[i].limit = Share(loc.limit, Len(loc.taxonomies_data))
       /\ (pc = "done" /\ ~IsError(result))
          => LET results == Take(SortedByBrand(loc.all_diffusions), loc.limit) IN
             /\ result.t = "list"
             /\ Len(result.items) = Len(results)
             /\ \A i \in 1..Len(results) : result.items[i] = EpisodeRecord(results[i])
             /\ results = <<>> => result.items = <<>>

\* four diffusions were found under two taxonomies, the limit is two: the episodes
\* returned are the first two by brand
C20_Witness ==
    /\ Done("search_episodes")
    /\ API_KEY
    /\ loc.limit = 2
    /\ Len(loc.all_diffusions) = 4
    /\ result.t = "list"
    /\ Len(result.items) = 2
    /\ result.items[1].show.title = "A"
    /\ result.items[1].publishedDate = "2024-01-02"
    /\ result.items[1].taxonomyTitle = "Theme 1"

(* ---- C21 ---- *)

\* q is floor(a / b), for b > 0
IsFloor(q, a, b) == q * b <= a /\ a < (q + 1) * b

\* C21: search_podcasts asks the gateway for at most 5 taxonomies of the keyword,
\* whatever its limit, and asks for floor(limit / taxonomyCount) + 1 diffusions of
\* each taxonomy it fetches, taxonomyCount being the number of taxonomies the lookup
\* returned
C21_FiveTaxonomiesAndShare ==
    (tool = "search_podcasts" /\ API_KEY)
    => /\ gateway_calls # <<>>
       /\ gateway_calls[1] = [op |-> "taxonomies", keyword |-> loc.query, limit |-> 5]
       /\ \A i \in 2..Len(gateway_calls) :
             /\ gateway_calls[i].op = "taxonomy"
             /\ Len(loc.taxonomies_data) > 0
             /\ IsFloor(gateway_calls[i].limit - 1, loc.limit, Len(loc.taxonomies_data))

\* the limit is 3 and two taxonomies were returned: 2 diffusions of each were asked for
C21_Witness ==
    /\ Done("search_podcasts")
    /\ API_KEY
    /\ loc.limit = 3
    /\ Len(loc.taxonomies_data) = 2
    /\ Len(gateway_calls) = 3
    /\ gateway_calls[2].limit = 2
    /\ gateway_calls[3] = [op |-> "taxonomy", taxonomyId |-> "t2", limit |-> 2]

(* ---- C22 ---- *)

\* the taxonomies after the i-th whose diffusions search_podcasts fetches
FetchedAfter(taxonomies_data, i) ==
    { j \in (i + 1)..Len(taxonomies_data) :
        /\ taxonomies_data[j].k = "obj"
        /\ Truthy(Get(taxonomies_data[j].id, "")) }

\* C22: search_podcasts sorts and cuts only when the last fetch of diffusions has
\* been answered.  On every answer to a fetch, the diffusions it brought are added,
\* in their order, to those found so far; while a taxonomy is left to fetch, the next
\* one is fetched and there is no result; the result, when it is no error object, is
\* produced when none is left, and is the sorted found set cut at the limit.
C22_SortAfterEveryFetch ==
    [][ (tool = "search_podcasts" /\ pc = "await_diffusions")
        => LET taxonomy == loc.taxonomies_data[loc.tax_idx]
               data == get_diffusions(taxonomy.id, reply')
               fetched == IF data.t = "dict"
                          THEN [i \in 1..Len(data.diffusions) |->
                                   TagDiffusion(data.diffusions[i], taxonomy)]
                          ELSE <<>>
               rest == FetchedAfter(loc.taxonomies_data, loc.tax_idx)
           IN  /\ loc'.all_diffusions = loc.all_diffusions \o fetched
               /\ pc' = "await_diffusions"
                  => /\ result' = NoResult
                     /\ loc'.tax_idx \in rest
                     /\ \A j \in rest : loc'.tax_idx <= j
               /\ (pc' = "done" /\ result'.t = "dict")
                  => /\ rest = {}
                     /\ result'.results =
                           Take(SortedByBrand(loc'.all_diffusions), loc.limit)
      ]_vars

\* two taxonomies were fetched, one after the other, and the result holds diffusions
\* of both
C22_Witness ==
    /\ Done("search_podcasts")
    /\ result.t = "dict"
    /\ Len(gateway_calls) = 3
    /\ \E i, j \in 1..Len(result.results) :
          /\ result.results[i].taxonomyTitle = "Theme 1"
          /\ result.results[j].taxonomyTitle = "Theme 2"

(* ---- C24 ---- *)

\* the gateway answered the taxonomy lookup with no taxonomy: an empty list, or
\* data without the key
NoTaxonomy(resp) ==
    /\ resp.kind = "data"
    /\ "taxonomies" \in DOMAIN resp
    /\ \/ resp.taxonomies.k = "absent"
       \/ resp.taxonomies.k = "list" /\ resp.taxonomies.items = <<>>

C25_ErrorObjectUnchanged ==
    /\ ( /\ tool \in {"search_podcasts", "search_episodes"}
         /\ API_KEY
         /\ Len(gateway_calls) = 1
         /\ reply.kind = "raise" )
       => /\ pc = "done"
          /\ result = [t |-> "error", error |-> "Error getting taxonomies: " \o reply.exc]
    /\ (Done("search_episodes") /\ API_KEY /\ IsError(result))
       => /\ DOMAIN result = {"t", "error"}
          /\ \/ StartsWith(result.error, "Error getting taxonomies: ")
             \/ StartsWith(result.error, "Error searching podcasts: ")
    /\ (tool = "get_station_programs" /\ API_KEY /\ reply.kind = "raise")
       => /\ pc = "done"
          /\ Len(gateway_calls) = 1
          /\ result = [t |-> "error", error |-> "Error getting station grid: " \o reply.exc]
    /\ ( /\ tool = "get_station_programs"
         /\ API_KEY
         /\ reply.kind = "data"
         /\ reply.grid.k = "absent" )
       => /\ pc = "done"
          /\ Len(gateway_calls) = 1
          /\ result = [t |-> "error",
                       error |-> "No grid found for station: " \o loc.station_code]

\* the grid query of get_station_programs raised, and the tool returned the error
\* object of get_station_grid
C25_Witness ==
    /\ Done("get_station_programs")
    /\ API_KEY
    /\ reply = [kind |-> "raise", exc |-> "TransportQueryError"]
    /\ result = [t |-> "error",
                 error |-> "Error getting station grid: TransportQueryError"]

(* ---- C26 ---- *)

RECURSIVE FirstScriptUrl(_)
\* the URL of the first script, in the order of the page, from which the scan
\* extracts one (NULL: none of them gives one)
FirstScriptUrl(scripts) ==
    IF scripts = <<>> THEN NULL
    ELSE IF Head(scripts).k = "obj" /\ ScanLines(Head(scripts).lines, NULL) # NULL
    THEN ScanLines(Head(scripts).lines, NULL)
    ELSE FirstScriptUrl(Tail(scripts))

\* C26: the scan of the inline scripts stops at the first URL it extracts: when
\* neither the player element nor the embedded metadata gave an audio URL, the
\* audioUrl is the URL of the first script that gives one, whatever the scripts
\* after it hold
C26_ScanStopsAtFirstUrl ==
    ( /\ Done("get_audio_content_info")
      /\ reply.kind = "page"
      /\ reply.page.audio_element.k = "absent"
      /\ reply.page.json_ld.k = "absent" )
    => /\ result.t = "dict"
       /\ result.audioUrl = FirstScriptUrl(reply.page.scripts)

(* ---- C23 ---- *)

\* the invocation v is in a state, and has an outcome, that its own arguments and
\* the responses to its own calls give it when it runs alone
AsAlone(v) ==
    /\ v.tool = "none" => v = NoInvocation
    /\ (v.tool \in ApiTools /\ ~API_KEY)
       => /\ v.pc = "done"
          /\ v.result = Err(ERR_API_KEY)
          /\ v.gateway_calls = <<>>
    /\ (v.tool = "get_taxonomies" /\ API_KEY)
       => /\ v.gateway_calls =
                <<[op |-> "taxonomies", keyword |-> v.loc.query, limit |-> v.loc.limit]>>
          /\ v.result = IF v.pc = "done" THEN get_taxonomies(v.reply) ELSE NoResult
    /\ (v.tool = "get_station_programs" /\ API_KEY)
       => LET station_code == ResolveStationCode(v.loc.station_name) IN
          /\ v.gateway_calls = <<[op |-> "grid", station |-> station_code]>>
          /\ v.result =
                IF v.pc = "done"
                THEN get_station_programs(v.loc.station_name,
                                          get_station_grid(station_code, v.reply))
                ELSE NoResult
    /\ (v.tool = "search_podcasts" /\ API_KEY)
       => LET calls == v.gateway_calls
              taxonomies_data == v.loc.taxonomies_data
          IN  /\ calls # <<>>
              /\ calls[1] = [op |-> "taxonomies", keyword |-> v.loc.query,
                             limit |-> TaxonomyLimit]
              /\ \A i \in 2..Len(calls) :
                    /\ calls[i].op = "taxonomy"
                    /\ calls[i].limit = Share(v.loc.limit, Len(taxonomies_data))
                    /\ \E j \in 1..Len(taxonomies_data) :
                          /\ taxonomies_data[j].k = "obj"
                          /\ taxonomies_data[j].id = calls[i].taxonomyId
              /\ v.pc = "await_diffusions"
                 => calls[Len(calls)].taxonomyId = taxonomies_data[v.loc.tax_idx].id
              /\ v.pc # "done" => v.result = NoResult
              /\ (v.pc = "done" /\ Len(calls) = 1 /\ IsError(get_taxonomies(v.reply)))
                 => v.result = get_taxonomies(v.reply)
              /\ (v.pc = "done" /\ v.result.t = "dict")
                 => v.result =
                       [t |-> "dict", query |-> v.loc.query,
                        results |-> Take(SortedByBrand(v.loc.all_diffusions), v.loc.limit)]

====
